---------------------------- MODULE Spec2Model ----------------------------
(***************************************************************************)
(* A model of the DPDK safety layer of rust-dpdk (dpdk/src/eal.rs).        *)
(*                                                                         *)
(* The specifications share one set of variables:                          *)
(*   SpecLife   pool / packet / Eal lifecycle: create_mpool, alloc,        *)
(*              alloc_bulk, rx, Packet drop, MPool clone and drop, Eal     *)
(*              clone and drop with EalInner::drop (deferred release).     *)
(*   SpecTx     burst transmit: TxQ::tx and TxQ::tx_cloned on an ArrayVec  *)
(*              of packets, with the NIC completing accepted packets.      *)
(*   SpecSetup  threads calling Eal::setup on clones of one Eal, under the *)
(*              shared mutex.                                              *)
(*   SpecPkt    the length and offset methods of one Packet.               *)
(*   SpecTopo   one caller of Eal::setup on every machine topology.        *)
(*   SpecStat   threads calling Port::get_stat and Port::reset_stat on one *)
(*              Port while the device counts traffic.                      *)
(* The native layer (librte) is not part of the repository; its calls are  *)
(* modelled at the line of eal.rs that makes them, with the outcomes the   *)
(* native contract allows chosen nondeterministically.                     *)
(***************************************************************************)
EXTENDS Integers, Sequences, FiniteSets, TLC

\* ------------------------------------------------------------------ bounds
\* Number of pool names create_mpool is called with.
NumPools == 2
\* `n` given to create_mpool: mbufs per pool.
PoolSize == 2
\* Capacity of the caller's ArrayVec of packets.
BufCap == 2
\* Largest number of simultaneously live `Eal` values (clones).
MaxEalClones == 2
\* Largest number of simultaneously live `MPool` values of one pool.
MaxMPoolClones == 2
\* Free descriptors of the NIC's transmit ring.
TxRingSize == 2
\* Threads calling setup, and calls per thread.
NumThreads == 2
MaxCalls == 2
\* Valid ethernet ports and enabled lcores seen by setup.
NumPorts == 2
NumLcores == 2
\* NUMA nodes of the machine.
NumSockets == 2

\* buf_len of a Packet's mbuf: headroom plus data room, in bytes.
PktBufLen == 3
\* RTE_PKTMBUF_HEADROOM of the native build, scaled down.
PktHeadroom == 1
\* Sizes given to the Packet methods: 0..MaxSize and 2^16 + (0..MaxSize).
MaxSize == 2

\* Events the device counts in its statistics while the Port is observed,
\* and get_stat / reset_stat calls made on the Port.
MaxTraffic == 1
MaxStatCalls == 3

\* Longest argument vector handed to Eal::new.
MaxArgs == 3

\* Most handles (clones) of one Port, RxQ or TxQ alive at a time.
MaxHandles == 2

\* --------------------------------------------------------------- constants
\* dpdk_sys::EALREADY (errno 114), the code setup returns when called twice.
EALREADY == 114
\* u16 conversions (`current as u16`) wrap at 2^16.
U16Mod == 65536
\* u8 range of ErrorCode::Unknown { code }.
U8Max == 255

Pools == 1..NumPools
Mbufs == 1..(NumPools * PoolSize)
Threads == 1..NumThreads
Ports == 1..NumPorts
Lcores == 1..NumLcores

\* The pool an mbuf belongs to, and the mbufs of a pool.
PoolOf(m) == ((m - 1) \div PoolSize) + 1
MbufsOf(p) == {m \in Mbufs : PoolOf(m) = p}

VARIABLES
    \* ---- Eal / EalInner / EalGlobalInner
    ealClones,          \* live `Eal` values (each one Arc<EalInner> reference)
    ealState,           \* "alive", "cleaned", "gc_assert_failed", "cleanup_assert_failed"
    cleanupCalls,       \* number of rte_eal_cleanup calls made
    setup_initialized,  \* EalGlobalInner.setup_initialized
    garbages,           \* EalGlobalInner.garbages: pools whose release was deferred
    \* ---- MPool / MPoolInner / native mempool
    arena,              \* native rte_mempool per pool: "none", "created", "freed"
    mpoolClones,        \* live `MPool` values per pool (Arc<MPoolInner> references)
    refcnt,             \* native reference count per mbuf; 0 = in the pool's free list
    \* ---- Packets owned by the caller
    buffer,             \* the caller's ArrayVec<[Packet; BufCap]>: its Packets
    \* ---- NIC
    nicHeld,            \* mbufs accepted by rte_eth_tx_burst, not yet completed
    \* ---- history (not program state)
    everDeferred,       \* pools ever pushed into garbages
    lastOp,             \* the burst operation just performed, or [op |-> "none"]
    \* ---- setup threads and hardware
    lock,               \* holder of EalInner.shared (0 = free)
    poisoned,           \* EalInner.shared is poisoned (a holder panicked)
    pc,                 \* per thread: position inside setup
    args,               \* per thread: (rx_affinity, tx_affinity) of the call
    cur,                \* per thread: loop position [port, q]
    calls,              \* per thread: setup calls made so far
    ret,                \* per thread: what the last finished call returned
    hw,                 \* native port state per port
    hist,               \* history of the setup calls
    topo,               \* the machine: enabled lcores, NUMA node of lcores and ports
    \* ---- one Packet's rte_mbuf
    mbuf,               \* its fields buf_len, data_off, data_len, pkt_len
    pktOp,              \* history: the Packet method just called
    \* ---- one Port's statistics
    portStat,           \* has_stats_reset, prev_stat (and its Mutex), the device counters
    statPc,             \* per thread: position inside get_stat / reset_stat, and dpdk_stat
    statOp,             \* history: the statistics call that returned last
    \* ---- Eal::new
    ealNew,             \* the caller's `args`, and what the call did and returned
    \* ---- one Port and its queues after setup
    down,               \* handles of the Port, its RxQs and TxQs; the port's native state
    \* ---- threads launched on lcores
    launch,             \* per launched thread: position, pin attempt, closure runs, join
    \* ---- the loopback run of dpdk_test
    loop,               \* the thread's position, the link states, where the packets are
    \* ---- threads dropping pools
    gc                  \* per thread: position inside MPoolInner::drop, its request

lifeVars == <<ealClones, ealState, cleanupCalls, garbages, arena, mpoolClones,
              refcnt, buffer, everDeferred>>
txVars == <<nicHeld, lastOp>>
setupVars == <<setup_initialized, lock, poisoned, pc, args, cur, calls, ret, hw, hist,
               topo>>
pktVars == <<mbuf, pktOp>>
statVars == <<portStat, statPc, statOp>>
newVars == <<ealNew>>
downVars == <<down>>
extVars == <<launch, loop, gc>>
baseVars == <<lifeVars, txVars, setupVars, pktVars, statVars, newVars, downVars>>
objVars == <<pktVars, statVars, newVars, downVars, extVars>>
vars == <<lifeVars, txVars, setupVars, objVars>>

NoOp == [op |-> "none"]

\* History: lastOp follows the buffer operations only in a specification
\* that does not start with it switched off.
NoRecord == [op |-> "off"]
Record(r) == IF lastOp = NoRecord THEN lastOp ELSE r

\* ------------------------------------------------------------ sequences
Range(s) == {s[i] : i \in 1..Len(s)}
Count(x, s) == Cardinality({i \in 1..Len(s) : s[i] = x})
Min(S) == CHOOSE x \in S : \A y \in S : x <= y

\* The first k elements of a finite set of integers, in ascending order.
RECURSIVE TakeMin(_, _)
TakeMin(S, k) ==
    IF k = 0 \/ S = {} THEN <<>>
    ELSE <<Min(S)>> \o TakeMin(S \ {Min(S)}, k - 1)


\* ============================================================ native layer
\* rte_mempool_full: every mbuf of the pool is back in its free list.
MempoolFull(p, rc) == \A m \in MbufsOf(p) : rc[m] = 0

\* Free mbufs of a pool (rte_mempool_avail_count).
FreeMbufs(p, rc) == {m \in MbufsOf(p) : rc[m] = 0}

\* rte_pktmbuf_free on every mbuf of the sequence s, one call per element:
\* the reference count drops by one and at zero the mbuf is back in its pool.
RECURSIVE PktmbufFreeAll(_, _)
PktmbufFreeAll(s, rc) ==
    IF s = <<>> THEN rc
    ELSE PktmbufFreeAll(Tail(s),
                        [rc EXCEPT ![Head(s)] = IF @ > 0 THEN @ - 1 ELSE 0])

\* rte_pktmbuf_refcnt_update(m, 1) on every mbuf of the sequence s.
RECURSIVE RefcntUpdateAll(_, _)
RefcntUpdateAll(s, rc) ==
    IF s = <<>> THEN rc
    ELSE RefcntUpdateAll(Tail(s), [rc EXCEPT ![Head(s)] = @ + 1])

\* ================================================================= Packet
Sizes == (0..MaxSize) \cup {U16Mod + k : k \in 0..MaxSize}

\* Largest data_len and data_off the modelled callers let a Packet reach.
PktMaxData == PktBufLen + MaxSize

\* `size as u16` in the Packet methods.
SizeAsU16(size) == size % U16Mod

\* rte_pktmbuf_reset_headroom: data_off = min(RTE_PKTMBUF_HEADROOM, buf_len).
ResetHeadroom(m) ==
    [m EXCEPT !.data_off = IF PktHeadroom <= m.buf_len THEN PktHeadroom
                           ELSE m.buf_len]

\* The mbuf of a Packet just handed out by the pool (alloc, alloc_bulk) or
\* by rte_eth_rx_burst with n received bytes behind the headroom.
NewMbuf(n) ==
    ResetHeadroom([buf_len |-> PktBufLen, data_off |-> 0,
                   data_len |-> n, pkt_len |-> n])

NoPktOp == [op |-> "none"]

\* The Packet methods are not exercised: a fresh mbuf, no call made.
InitPacketIdle ==
    /\ mbuf = NewMbuf(0)
    /\ pktOp = NoPktOp

\* Packet::len and Packet::capacity.
PacketLen(m) == m.data_len
PacketCapacity(m) == m.buf_len

\* Packet::buffer / buffer_mut: the slice starts at buf_addr + data_off and
\* has buf_len bytes; offsets are relative to buf_addr.
BufferView(m) == [start |-> m.data_off, len |-> m.buf_len]

\* Packet::data / data_mut: &buffer()[0..len()], which panics when len()
\* exceeds the slice's length.
DataView(m) ==
    IF PacketLen(m) <= BufferView(m).len
    THEN [panic |-> FALSE, start |-> BufferView(m).start, len |-> PacketLen(m)]
    ELSE [panic |-> TRUE, start |-> 0, len |-> 0]

\* Packet::set_len: assert!(buf_len >= size as u16), then data_len and
\* pkt_len are written.
PktSetLen(size) ==
    /\ IF mbuf.buf_len >= SizeAsU16(size)
       THEN /\ mbuf' = [mbuf EXCEPT !.data_len = SizeAsU16(size),
                                    !.pkt_len = size]
            /\ pktOp' = [op |-> "set_len", size |-> size, pre |-> mbuf,
                         panic |-> FALSE]
       ELSE /\ mbuf' = mbuf
            /\ pktOp' = [op |-> "set_len", size |-> size, pre |-> mbuf,
                         panic |-> TRUE]
    /\ UNCHANGED <<lifeVars, txVars, setupVars, statVars, newVars, downVars, extVars>>

\* Packet::trim_head: rte_pktmbuf_adj returns NULL when len > data_len,
\* else moves the data start forward; assert_ne!(ret, null).
PktTrimHead(size) ==
    /\ LET len == SizeAsU16(size)
       IN  /\ mbuf.data_off + len <= PktMaxData
           /\ IF len > mbuf.data_len
              THEN /\ mbuf' = mbuf
                   /\ pktOp' = [op |-> "trim_head", size |-> size,
                                pre |-> mbuf, panic |-> TRUE]
              ELSE /\ mbuf' = [mbuf EXCEPT !.data_len = @ - len,
                                           !.data_off = (@ + len) % U16Mod,
                                           !.pkt_len = @ - len]
                   /\ pktOp' = [op |-> "trim_head", size |-> size,
                                pre |-> mbuf, panic |-> FALSE]
    /\ UNCHANGED <<lifeVars, txVars, setupVars, statVars, newVars, downVars, extVars>>

\* Packet::trim_tail: rte_pktmbuf_trim returns -1 when len > data_len, else
\* shortens the data; assert_eq!(ret, 0).
PktTrimTail(size) ==
    /\ LET len == SizeAsU16(size)
       IN  IF len > mbuf.data_len
           THEN /\ mbuf' = mbuf
                /\ pktOp' = [op |-> "trim_tail", size |-> size, pre |-> mbuf,
                             panic |-> TRUE]
           ELSE /\ mbuf' = [mbuf EXCEPT !.data_len = @ - len,
                                        !.pkt_len = @ - len]
                /\ pktOp' = [op |-> "trim_tail", size |-> size, pre |-> mbuf,
                             panic |-> FALSE]
    /\ UNCHANGED <<lifeVars, txVars, setupVars, statVars, newVars, downVars, extVars>>

\* Packet::reset_headroom.
PktResetHeadroom ==
    /\ mbuf' = ResetHeadroom(mbuf)
    /\ pktOp' = [op |-> "reset_headroom", size |-> 0, pre |-> mbuf,
                 panic |-> FALSE]
    /\ UNCHANGED <<lifeVars, txVars, setupVars, statVars, newVars, downVars, extVars>>

\* Packet::prepend: rte_pktmbuf_prepend returns NULL when len exceeds the
\* headroom (data_off), else moves the data start back; assert_ne!(ret, null).
PktPrepend(size) ==
    /\ LET len == SizeAsU16(size)
       IN  /\ mbuf.data_len + len <= PktMaxData
           /\ IF len > mbuf.data_off
              THEN /\ mbuf' = mbuf
                   /\ pktOp' = [op |-> "prepend", size |-> size, pre |-> mbuf,
                                panic |-> TRUE]
              ELSE /\ mbuf' = [mbuf EXCEPT !.data_off = @ - len,
                                           !.data_len = (@ + len) % U16Mod,
                                           !.pkt_len = @ + len]
                   /\ pktOp' = [op |-> "prepend", size |-> size, pre |-> mbuf,
                                panic |-> FALSE]
    /\ UNCHANGED <<lifeVars, txVars, setupVars, statVars, newVars, downVars, extVars>>

\* rte_pktmbuf_tailroom: buf_len - data_off - data_len in 16-bit arithmetic.
Tailroom(m) == (m.buf_len - m.data_off - m.data_len) % U16Mod

\* Packet::append: rte_pktmbuf_append returns NULL when len exceeds the
\* tailroom, else lengthens the data; assert_ne!(ret, null).
PktAppend(size) ==
    /\ LET len == SizeAsU16(size)
       IN  /\ mbuf.data_len + len <= PktMaxData
           /\ IF len > Tailroom(mbuf)
              THEN /\ mbuf' = mbuf
                   /\ pktOp' = [op |-> "append", size |-> size, pre |-> mbuf,
                                panic |-> TRUE]
              ELSE /\ mbuf' = [mbuf EXCEPT !.data_len = (@ + len) % U16Mod,
                                           !.pkt_len = @ + len]
                   /\ pktOp' = [op |-> "append", size |-> size, pre |-> mbuf,
                                panic |-> FALSE]
    /\ UNCHANGED <<lifeVars, txVars, setupVars, statVars, newVars, downVars, extVars>>

NextPkt ==
    \/ \E size \in Sizes : PktSetLen(size)
    \/ \E size \in Sizes : PktTrimHead(size)
    \/ \E size \in Sizes : PktTrimTail(size)
    \/ PktResetHeadroom
    \/ \E size \in Sizes : PktPrepend(size)
    \/ \E size \in Sizes : PktAppend(size)

\* ========================================================== port statistics
\* The fields of PortStat (rte_eth_stats); a per-queue array is written as
\* its entry for one queue.
StatFields ==
    {"ipackets", "opackets", "ibytes", "obytes", "ierrors", "oerrors",
     "imissed", "rx_nombuf",
     "q_ipackets", "q_opackets", "q_ibytes", "q_obytes", "q_errors"}

\* MaybeUninit::zeroed() as a PortStat.
ZeroStat == [f \in StatFields |-> 0]

\* What the device adds to its counters for one event.
TrafficKinds == {"rx", "tx", "rx_error", "tx_error", "rx_missed", "rx_nombuf"}
Counted(kind) ==
    [f \in StatFields |->
        CASE kind = "rx" /\ f \in {"ipackets", "q_ipackets"} -> 1
          [] kind = "rx" /\ f \in {"ibytes", "q_ibytes"} -> 2
          [] kind = "tx" /\ f \in {"opackets", "q_opackets"} -> 1
          [] kind = "tx" /\ f \in {"obytes", "q_obytes"} -> 2
          [] kind = "rx_error" /\ f \in {"ierrors", "q_errors"} -> 1
          [] kind = "tx_error" /\ f = "oerrors" -> 1
          [] kind = "rx_missed" /\ f = "imissed" -> 1
          [] kind = "rx_nombuf" /\ f = "rx_nombuf" -> 1
          [] OTHER -> 0]

\* Events counted in a PortStat.
EventsIn(st) ==
    st["ipackets"] + st["opackets"] + st["ierrors"] + st["oerrors"]
        + st["imissed"] + st["rx_nombuf"]

StatSubZero(x, y) == 0

\* `x - y` on u64.  A negative value d stands for the underflow: a panic in
\* a build with overflow checks, the wrapped value 2^64 + d in one without.
StatSub(x, y) == x - y

\* The PortStat get_stat builds from the counters it read.
GetStatResult(has_stats_reset, dpdk_stat, prev_stat) ==
    IF has_stats_reset
    THEN dpdk_stat
    ELSE [f \in StatFields |-> StatSub(dpdk_stat[f], prev_stat[f])]

\* prev_stat after reset_stat has stored the counters it read.
ResetBaseline(prev_stat, dpdk_stat) ==
    [prev_stat EXCEPT !["ipackets"] = dpdk_stat["ipackets"],
                      !["opackets"] = dpdk_stat["opackets"],
                      !["ibytes"] = dpdk_stat["ibytes"],
                      !["obytes"] = dpdk_stat["obytes"],
                      !["ierrors"] = dpdk_stat["ierrors"],
                      !["oerrors"] = dpdk_stat["oerrors"]]

\* History of the statistics calls: the call that returned last, kept
\* until something else happens.  `since` tells what happened after it
\* returned: nothing (0), only the first statement of a call of thread t
\* (t), or anything else (DirtySince).  `by` is the thread whose call began
\* last with nothing happening since (0: none).  `read` is the counters the
\* call read and `pre` the Port before it returned; `alone` tells that
\* nothing happened between its first statement and its return; `prior` is
\* the call that returned just before it, when both ran alone and nothing
\* happened in between.
DirtySince == 0 - 1
NoPrior == [op |-> "none", res |-> ZeroStat]
NoStatOp == [op |-> "none", res |-> ZeroStat, read |-> ZeroStat,
             pre |-> [prev_stat |-> ZeroStat, raw |-> ZeroStat],
             panic |-> "none", alone |-> FALSE, prior |-> NoPrior,
             since |-> 0, by |-> 0, begun |-> 0]
StatForgotten ==
    [NoStatOp EXCEPT !.since = DirtySince, !.begun = statOp.begun]
StatBegun(t) ==
    IF statOp.since = 0
    THEN [statOp EXCEPT !.since = t, !.by = t, !.begun = @ + 1]
    ELSE [StatForgotten EXCEPT !.by = t, !.begun = @ + 1]
StatReturned(t, op, res, read, panic) ==
    [op |-> op, res |-> res, read |-> read,
     pre |-> [prev_stat |-> portStat.prev_stat, raw |-> portStat.raw],
     panic |-> panic,
     alone |-> (t = 0 \/ statOp.by = t),
     prior |-> IF /\ statOp.since = t
                  /\ statOp.alone
                  /\ statOp.panic = "none"
                  /\ panic = "none"
               THEN [op |-> statOp.op, res |-> statOp.res]
               ELSE NoPrior,
     since |-> 0,
     by |-> 0,
     begun |-> IF t = 0 THEN statOp.begun + 1 ELSE statOp.begun]

\* A Port created by setup, before any statistics call.
NewPortStat(has_stats_reset) ==
    [has_stats_reset |-> has_stats_reset, prev_stat |-> ZeroStat,
     poisoned |-> FALSE, raw |-> ZeroStat]

IdleCaller == [at |-> "idle", dpdk_stat |-> ZeroStat]

\* The callers are alike: a new call is made by the first thread that is
\* not inside one.
NextCaller(t) ==
    /\ statPc[t].at = "idle"
    /\ \A u \in Threads : u < t => statPc[u].at # "idle"

InitStatIdle ==
    /\ portStat = NewPortStat(TRUE)
    /\ statPc = [t \in Threads |-> IdleCaller]
    /\ statOp = NoStatOp

\* get_stat, first statement: rte_eth_stats_get with assert_eq!(ret, 0).
\* A caller that panics leaves its place to another caller.
StatGetRead(t) ==
    /\ NextCaller(t)
    /\ statOp.begun < MaxStatCalls
    /\ \E ok \in BOOLEAN :
         IF ok
         THEN /\ statPc' = [statPc EXCEPT ![t] = [at |-> "get", dpdk_stat |-> portStat.raw]]
              /\ statOp' = StatBegun(t)
         ELSE /\ statOp' = StatReturned(0, "get_stat", ZeroStat, ZeroStat, "assert")
              /\ UNCHANGED statPc
    /\ UNCHANGED <<portStat, lifeVars, txVars, setupVars, pktVars, newVars, downVars, extVars>>

\* get_stat, the rest: the raw counters if has_stats_reset, otherwise
\* prev_stat.lock().unwrap() and the field-wise subtraction, which panics
\* on underflow in a build with overflow checks (poisoning prev_stat).
StatGetReturn(t) ==
    /\ statPc[t].at = "get"
    /\ LET read == statPc[t].dpdk_stat
           res == GetStatResult(portStat.has_stats_reset, read, portStat.prev_stat)
           underflow == \E f \in StatFields : res[f] < 0
       IN  IF ~portStat.has_stats_reset /\ portStat.poisoned
           THEN /\ statOp' = StatReturned(t, "get_stat", ZeroStat, read, "poisoned")
                /\ UNCHANGED portStat
           ELSE \E overflow_checks \in BOOLEAN :
                  IF underflow /\ overflow_checks
                  THEN /\ statOp' = StatReturned(t, "get_stat", res, read, "overflow")
                       /\ portStat' = [portStat EXCEPT !.poisoned = TRUE]
                  ELSE /\ statOp' = StatReturned(t, "get_stat", res, read, "none")
                       /\ UNCHANGED portStat
    /\ statPc' = [statPc EXCEPT ![t] = IdleCaller]
    /\ UNCHANGED <<lifeVars, txVars, setupVars, pktVars, newVars, downVars, extVars>>

\* reset_stat, first statement: rte_eth_stats_reset with assert_eq!(ret, 0)
\* if has_stats_reset (and the call returns), otherwise rte_eth_stats_get
\* with assert_eq!(ret, 0).
StatResetRead(t) ==
    /\ NextCaller(t)
    /\ statOp.begun < MaxStatCalls
    /\ \E ok \in BOOLEAN :
         IF ~ok
         THEN /\ statOp' = StatReturned(0, "reset_stat", ZeroStat, ZeroStat, "assert")
              /\ UNCHANGED <<portStat, statPc>>
         ELSE IF portStat.has_stats_reset
         THEN /\ portStat' = [portStat EXCEPT !.raw = ZeroStat]
              /\ statOp' = StatReturned(0, "reset_stat", ZeroStat, ZeroStat, "none")
              /\ UNCHANGED statPc
         ELSE /\ statPc' = [statPc EXCEPT ![t] = [at |-> "reset", dpdk_stat |-> portStat.raw]]
              /\ statOp' = StatBegun(t)
              /\ UNCHANGED portStat
    /\ UNCHANGED <<lifeVars, txVars, setupVars, pktVars, newVars, downVars, extVars>>

\* reset_stat, the rest: prev_stat.lock().unwrap() and the stores.
StatResetStore(t) ==
    /\ statPc[t].at = "reset"
    /\ IF portStat.poisoned
       THEN /\ statOp' = StatReturned(t, "reset_stat", ZeroStat, statPc[t].dpdk_stat,
                                      "poisoned")
            /\ UNCHANGED portStat
       ELSE /\ portStat' = [portStat EXCEPT
                              !.prev_stat = ResetBaseline(@, statPc[t].dpdk_stat)]
            /\ statOp' = StatReturned(t, "reset_stat", ZeroStat, statPc[t].dpdk_stat,
                                      "none")
    /\ statPc' = [statPc EXCEPT ![t] = IdleCaller]
    /\ UNCHANGED <<lifeVars, txVars, setupVars, pktVars, newVars, downVars, extVars>>

\* The device counts one event.
StatTraffic(kind) ==
    /\ EventsIn(portStat.raw) < MaxTraffic
    /\ portStat' = [portStat EXCEPT
                      !.raw = [f \in StatFields |-> @[f] + Counted(kind)[f]]]
    /\ statOp' = StatForgotten
    /\ UNCHANGED <<statPc, lifeVars, txVars, setupVars, pktVars, newVars, downVars, extVars>>

NextStat ==
    \/ \E t \in Threads : StatGetRead(t)
    \/ \E t \in Threads : StatGetReturn(t)
    \/ \E t \in Threads : StatResetRead(t)
    \/ \E t \in Threads : StatResetStore(t)
    \/ \E kind \in TrafficKinds : StatTraffic(kind)

\* ================================================================ Eal::new
\* The strings an argument may be; NulString stands for a string with an
\* interior NUL byte, which CString::new rejects.
NulString == "a<NUL>b"
ArgStrings == {"dpdk_test", "-n", NulString}
ArgVectors == UNION {[1..n -> ArgStrings] : n \in 0..MaxArgs}

\* run_with_args: CString::new(arg).expect(..) panics on an interior NUL.
CStringNewFails(arg) == arg = NulString

\* rte_eal_init(argc, argv): the number of parsed arguments, or -1.
RteEalInitRets(argc) == {0 - 1} \cup 0..argc

\* ErrorCode: TryFrom<i32>, `(-code).try_into()?` into u8, then unwrap().
ErrorCodeTryFromI32(code) ==
    IF (0 - code) \in 0..U8Max
    THEN [tag |-> "Err", code |-> 0 - code] ELSE [tag |-> "panic"]

DrainSuffix(v, n) == SubSeq(v, 1, Len(v) - n)

\* `args.drain(..n)`: what is left of the Vec.
DrainPrefix(v, n) == SubSeq(v, n + 1, Len(v))

\* Eal::new has returned Ok(Eal) and the caller's args are not looked at.
EalNewDone == [at |-> "done", args |-> <<>>, orig |-> <<>>, called |-> TRUE,
               status |-> 0, ret |-> [tag |-> "Ok"]]
InitEalNewDone == ealNew = EalNewDone

\* Eal::new(&mut args): EalInner::new runs rte_eal_init on C copies of the
\* arguments; a negative status is returned as Err(ErrorCode) through `?`,
\* otherwise the first `ret` arguments are drained and Ok(Eal) is returned,
\* the one reference to the new EalInner.
EalNew ==
    /\ ealNew.at = "call"
    /\ IF \E i \in 1..Len(ealNew.args) : CStringNewFails(ealNew.args[i])
       THEN ealNew' = [ealNew EXCEPT !.at = "done", !.ret = [tag |-> "panic"]]
       ELSE \E r \in RteEalInitRets(Len(ealNew.args)) :
              IF r < 0
              THEN ealNew' = [ealNew EXCEPT !.at = "done", !.called = TRUE,
                                            !.status = r,
                                            !.ret = ErrorCodeTryFromI32(r)]
              ELSE ealNew' = [ealNew EXCEPT !.at = "done", !.called = TRUE,
                                            !.status = r,
                                            !.args = DrainPrefix(@, r),
                                            !.ret = [tag |-> "Ok"]]
    /\ ealClones' = IF ealNew'.ret.tag = "Ok" THEN 1 ELSE ealClones
    /\ UNCHANGED <<ealState, cleanupCalls, garbages, arena, mpoolClones, refcnt,
                   buffer, everDeferred, txVars, setupVars, pktVars, statVars,
                   downVars, extVars>>

\* ================================================ Port, RxQ, TxQ teardown
\* Queue indices of the port: one RxQ and one TxQ per lcore.
QueueIds == 0..(NumLcores - 1)

\* History of an RX queue's pool whose release has not been attempted.
NotReleased == [others |-> "none", port |-> "none"]

\* The port and its queues as a successful setup leaves them: every RxQ and
\* TxQ has one handle (in the returned Vec), no Port handle is held outside
\* the queues, the port is owned and started, every RxQ has its pool.  The
\* caller holds one Eal and one MPool made by create_mpool; EalInner::drop
\* has not run.
NewDown ==
    [port |-> 0,
     rxq |-> [q \in QueueIds |-> 1],
     txq |-> [q \in QueueIds |-> 1],
     rx_stop |-> [q \in QueueIds |-> "none"],
     tx_stop |-> [q \in QueueIds |-> "none"],
     mpool |-> [q \in QueueIds |-> "live"],
     pool_rel |-> [q \in QueueIds |-> NotReleased],
     owned |-> TRUE, started |-> TRUE,
     unset_calls |-> 0, stop_calls |-> 0, close_calls |-> 0,
     panic |-> FALSE,
     eal |-> 1, pool |-> 1, torn |-> "no"]

InitDownIdle == down = NewDown

\* Queues whose RxQInner / TxQInner has not been dropped.
LiveQueues(handles) == {q \in QueueIds : handles[q] > 0}

PortStrongHandlesOnly(d) == d.port

\* Strong count of the port's Arc<PortInner>: the Port handles held by the
\* caller and the `port` field of every live RxQInner and TxQInner.
PortStrong(d) ==
    d.port + Cardinality(LiveQueues(d.rxq)) + Cardinality(LiveQueues(d.txq))

\* Outcomes of rte_eth_dev_rx_queue_stop / rte_eth_dev_tx_queue_stop: 0, or
\* an error (the driver may not support stopping a queue).
QueueStopRets == {"ok", "failed"}

\* PortInner::drop: rte_eth_dev_owner_unset (which fails unless the port is
\* owned by owner_id) with assert_eq!(ret, 0), then rte_eth_dev_stop and
\* rte_eth_dev_close.
PortInnerDrop(d) ==
    IF ~d.owned
    THEN [d EXCEPT !.unset_calls = @ + 1, !.panic = TRUE]
    ELSE [d EXCEPT !.unset_calls = @ + 1, !.owned = FALSE,
                   !.stop_calls = @ + 1, !.started = FALSE,
                   !.close_calls = @ + 1]

\* A reference to the PortInner has just been released: PortInner::drop
\* runs iff none is left.
PortRelease(d) == IF PortStrong(d) = 0 THEN PortInnerDrop(d) ELSE d

\* Some handle through which the caller can reach the Port is alive.
PortReachable(d) == PortStrong(d) > 0

\* A variant of DownEalStrong that counts the `Eal` values only.
DownEalStrongEalOnly(d) == d.eal

\* Strong count of the Arc<EalInner>: the `Eal` values, the `eal` field of
\* the PortInner, of the MPoolInner of every live RxQInner and of the
\* MPoolInner of the caller's pool.
DownEalStrong(d) ==
    d.eal + (IF PortStrong(d) > 0 THEN 1 ELSE 0)
          + Cardinality({q \in QueueIds : d.mpool[q] = "live"})
          + (IF d.pool > 0 THEN 1 ELSE 0)

\* A handle of kind `by` has just been dropped, with everything its drop
\* released: EalInner::drop runs iff no reference to the EalInner is left.
EalSettle(d, by) ==
    IF DownEalStrong(d) = 0 /\ d.torn = "no" THEN [d EXCEPT !.torn = by] ELSE d

\* `rxq.port().clone()`, `txq.port().clone()` or `port.clone()`.
PortClone ==
    /\ PortReachable(down)
    /\ ~down.panic
    /\ down.port < MaxHandles
    /\ down' = [down EXCEPT !.port = @ + 1]
    /\ UNCHANGED <<lifeVars, txVars, setupVars, pktVars, statVars, newVars, extVars>>

\* A Port handle is dropped.
PortDrop ==
    /\ down.port > 0
    /\ ~down.panic
    /\ down' = EalSettle(PortRelease([down EXCEPT !.port = @ - 1]), "port")
    /\ UNCHANGED <<lifeVars, txVars, setupVars, pktVars, statVars, newVars, extVars>>

\* What else held the port when the release of an RX queue's pool was
\* attempted (other queues, else Port handles, else nothing) and whether the
\* port had been stopped and closed by then.
PoolReleaseRecord(d) ==
    [others |-> IF LiveQueues(d.rxq) \cup LiveQueues(d.txq) # {} THEN "queues"
                ELSE IF d.port > 0 THEN "ports" ELSE "nothing",
     port |-> IF d.stop_calls > 0 /\ d.close_calls > 0 THEN "closed" ELSE "open"]

\* A variant of RxQInnerFields that releases the pool before the port.
RxQInnerFieldsPoolFirst(d, q, full) ==
    PortRelease([d EXCEPT !.mpool[q] = IF full THEN "freed" ELSE "deferred",
                          !.pool_rel[q] = PoolReleaseRecord(d)])

\* The fields of an RxQInner are dropped in the order of their declaration,
\* after RxQInner::drop has run: `port` (one reference to the PortInner),
\* then `mpool` (the queue's pool: freed if full, else its release is
\* deferred).
RxQInnerFields(d, q, full) ==
    LET d1 == PortRelease(d)
    IN  [d1 EXCEPT !.mpool[q] = IF full THEN "freed" ELSE "deferred",
                   !.pool_rel[q] = PoolReleaseRecord(d1)]

\* `rxq.clone()`.
RxQClone(q) ==
    /\ down.rxq[q] \in 1..(MaxHandles - 1)
    /\ ~down.panic
    /\ down' = [down EXCEPT !.rxq[q] = @ + 1]
    /\ UNCHANGED <<lifeVars, txVars, setupVars, pktVars, statVars, newVars, extVars>>

\* An RxQ handle is dropped.  With the last one RxQInner::drop runs:
\* rte_eth_dev_rx_queue_stop, whose error is only logged; then the fields
\* are dropped.
RxQDrop(q) ==
    /\ down.rxq[q] > 0
    /\ ~down.panic
    /\ IF down.rxq[q] > 1
       THEN down' = [down EXCEPT !.rxq[q] = @ - 1]
       ELSE \E st \in QueueStopRets, full \in BOOLEAN :
              down' = EalSettle(RxQInnerFields([down EXCEPT !.rxq[q] = 0,
                                                            !.rx_stop[q] = st],
                                               q, full),
                                "rxq")
    /\ UNCHANGED <<lifeVars, txVars, setupVars, pktVars, statVars, newVars, extVars>>

\* `txq.clone()`.
TxQClone(q) ==
    /\ down.txq[q] \in 1..(MaxHandles - 1)
    /\ ~down.panic
    /\ down' = [down EXCEPT !.txq[q] = @ + 1]
    /\ UNCHANGED <<lifeVars, txVars, setupVars, pktVars, statVars, newVars, extVars>>

\* A TxQ handle is dropped.  With the last one TxQInner::drop runs:
\* rte_eth_dev_tx_queue_stop, whose error is only logged; then `port` is
\* dropped.
TxQDrop(q) ==
    /\ down.txq[q] > 0
    /\ ~down.panic
    /\ IF down.txq[q] > 1
       THEN down' = [down EXCEPT !.txq[q] = @ - 1]
       ELSE \E st \in QueueStopRets :
              down' = EalSettle(PortRelease([down EXCEPT !.txq[q] = 0,
                                                         !.tx_stop[q] = st]),
                                "txq")
    /\ UNCHANGED <<lifeVars, txVars, setupVars, pktVars, statVars, newVars, extVars>>

\* `eal.clone()`.
DownEalClone ==
    /\ down.eal \in 1..(MaxEalClones - 1)
    /\ ~down.panic
    /\ down' = [down EXCEPT !.eal = @ + 1]
    /\ UNCHANGED <<lifeVars, txVars, setupVars, pktVars, statVars, newVars, extVars>>

\* An `Eal` value is dropped.
DownEalDrop ==
    /\ down.eal > 0
    /\ ~down.panic
    /\ down' = EalSettle([down EXCEPT !.eal = @ - 1], "eal")
    /\ UNCHANGED <<lifeVars, txVars, setupVars, pktVars, statVars, newVars, extVars>>

\* `mpool.clone()` of the caller's pool.
DownMPoolClone ==
    /\ down.pool \in 1..(MaxMPoolClones - 1)
    /\ ~down.panic
    /\ down' = [down EXCEPT !.pool = @ + 1]
    /\ UNCHANGED <<lifeVars, txVars, setupVars, pktVars, statVars, newVars, extVars>>

\* An `MPool` value of the caller's pool is dropped; the last one runs
\* MPoolInner::drop and then releases the MPoolInner's `eal`.
DownMPoolDrop ==
    /\ down.pool > 0
    /\ ~down.panic
    /\ down' = EalSettle([down EXCEPT !.pool = @ - 1], "pool")
    /\ UNCHANGED <<lifeVars, txVars, setupVars, pktVars, statVars, newVars, extVars>>

\* Handles of every kind are cloned and dropped.
NextKeep ==
    \/ PortClone
    \/ PortDrop
    \/ \E q \in QueueIds : RxQDrop(q)
    \/ \E q \in QueueIds : TxQDrop(q)
    \/ DownEalClone
    \/ DownEalDrop
    \/ DownMPoolClone
    \/ DownMPoolDrop

NextDown ==
    \/ PortClone
    \/ PortDrop
    \/ \E q \in QueueIds : RxQClone(q)
    \/ \E q \in QueueIds : RxQDrop(q)
    \/ \E q \in QueueIds : TxQClone(q)
    \/ \E q \in QueueIds : TxQDrop(q)

\* ================================================ LCoreId::launch, launch_scoped
\* Threads started through launch / launch_scoped.
Launched == Threads

\* What rte_thread_set_affinity returns: 0, or a negative value on failure.
SetAffinityRets == {0, 0 - 1}

\* What running the closure gives: its return value, or a panic, which the
\* join handle reports as Err.
ClosureOutcomes == [tag : {"Ok"}, val : BOOLEAN] \cup {[tag |-> "Err"]}

NoOutcome == [tag |-> "none"]

NotLaunched ==
    [kind |-> "none", at |-> "none", pin_calls |-> 0, pin_ret |-> 0, warned |-> FALSE,
     runs |-> 0, result |-> NoOutcome, joined |-> NoOutcome]

InitLaunchIdle == launch = [k \in Launched |-> NotLaunched]

\* A variant of the thread body that gives up when the pin attempt failed.
ThreadBodyBail(r) == IF r < 0 THEN <<"warn">> ELSE <<"f">>

\* The spawned thread's body after the pin attempt returned r:
\* `if ret < 0 { warn!(..) }` and then `f()`.
ThreadBody(r) == IF r < 0 THEN <<"warn", "f">> ELSE <<"f">>

\* Number of times step s occurs in a body.
Occurs(s, body) == Cardinality({i \in 1..Len(body) : body[i] = s})

\* launch: thread::spawn; launch_scoped: s.spawn on the caller's scope.
Launch(k, kind) ==
    /\ launch[k].at = "none"
    /\ launch' = [launch EXCEPT ![k] = [@ EXCEPT !.kind = kind, !.at = "spawned"]]
    /\ UNCHANGED <<baseVars, loop, gc>>

\* First statement of the spawned thread: rte_thread_set_affinity.
LaunchPin(k) ==
    /\ launch[k].at = "spawned"
    /\ \E r \in SetAffinityRets :
          launch' = [launch EXCEPT ![k] = [@ EXCEPT !.at = "pinned",
                                                    !.pin_calls = @ + 1,
                                                    !.pin_ret = r]]
    /\ UNCHANGED <<baseVars, loop, gc>>

\* The rest of the spawned thread: the warning if the pin failed, the closure,
\* and the thread's end, which makes the closure's outcome available to join.
LaunchRun(k) ==
    /\ launch[k].at = "pinned"
    /\ LET body == ThreadBody(launch[k].pin_ret)
           n == Occurs("f", body)
       IN  \E out \in (IF n > 0 THEN ClosureOutcomes ELSE {NoOutcome}) :
              launch' = [launch EXCEPT ![k] = [@ EXCEPT !.at = "finished",
                                                        !.warned = Occurs("warn", body) > 0,
                                                        !.runs = @ + n,
                                                        !.result = out]]
    /\ UNCHANGED <<baseVars, loop, gc>>

\* JoinHandle::join / ScopedJoinHandle::join: waits for the thread's end and
\* returns Ok(value) or Err(panic payload).
LaunchJoin(k) ==
    /\ launch[k].at = "finished"
    /\ launch' = [launch EXCEPT ![k] = [@ EXCEPT !.at = "joined",
                                              !.joined = launch[k].result]]
    /\ UNCHANGED <<baseVars, loop, gc>>

NextLaunch ==
    \/ \E k \in Launched, kind \in {"launch", "launch_scoped"} : Launch(k, kind)
    \/ \E k \in Launched : LaunchPin(k)
    \/ \E k \in Launched : LaunchRun(k)
    \/ \E k \in Launched : LaunchJoin(k)

\* ================================================ dpdk_test: sender, receiver
\* Packets that arrive at the receiving port from elsewhere.
Background == 0..MaxTraffic

\* The thread of core 0 is about to call sender; both links are down, no
\* packet is anywhere.
LoopIdle ==
    [at |-> "tx_link", tx_up |-> FALSE, rx_up |-> FALSE,
     pkts |-> 0, accepted |-> 0, tx_ring |-> 0, opackets |-> 0,
     rx_ring |-> 0, got |-> 0, background |-> 0]

InitLoopIdle == loop = LoopIdle

\* No thread is inside MPoolInner::drop.
InitGcIdle == gc = [t \in Threads |-> [at |-> "idle", pool |-> 0, len |-> 0]]

InitExtIdle == InitLaunchIdle /\ InitLoopIdle /\ InitGcIdle

\* ===================================================== deferred pool release
\* A variant of try_collect that frees without asking rte_mempool_full.
TryCollectUnchecked(p, ar, rc) ==
    [ok |-> TRUE, arena |-> [ar EXCEPT ![p] = "freed"]]

\* MPoolGcReq::try_collect: free the arena iff the pool is full.  On a
\* request whose arena was already freed it reads and frees released memory;
\* the arena is then marked "freed_twice".
TryCollect(p, ar, rc) ==
    IF ar[p] \in {"freed", "freed_twice"}
    THEN [ok |-> TRUE, arena |-> [ar EXCEPT ![p] = "freed_twice"]]
    ELSE IF MempoolFull(p, rc)
         THEN [ok |-> TRUE, arena |-> [ar EXCEPT ![p] = "freed"]]
         ELSE [ok |-> FALSE, arena |-> ar]

\* A variant of Deferred that hands every request to the Eal.
DeferredAlways(ok, g, p) == Append(g, p)

\* MPoolInner::drop: `if !ret.try_collect() { ..garbages.push(Box::new(ret)) }`;
\* g is the garbage list, ok what try_collect returned.
Deferred(ok, g, p) == IF ok THEN g ELSE Append(g, p)

\* The loop of EalInner::drop over garbages.drain(..): requests are tried in
\* order; the first one that fails trips assert_eq!(ret, true).
RECURSIVE DrainGarbages(_, _, _)
DrainGarbages(g, ar, rc) ==
    IF g = <<>> THEN [ok |-> TRUE, arena |-> ar]
    ELSE LET r == TryCollect(Head(g), ar, rc)
         IN  IF r.ok THEN DrainGarbages(Tail(g), r.arena, rc)
             ELSE [ok |-> FALSE, arena |-> r.arena]

\* Outcomes of rte_eal_cleanup: 0, -ENOTSUP, or another negative status.
CleanupRets == {"ok", "enotsup", "error"}

\* EalInner::drop; g and ar are the garbage list and arenas it finds.
EalInnerDrop(g, ar) ==
    LET d == DrainGarbages(g, ar, refcnt)
    IN  /\ arena' = d.arena
        /\ garbages' = <<>>
        /\ IF ~d.ok
           THEN /\ ealState' = "gc_assert_failed"
                /\ cleanupCalls' = cleanupCalls
           ELSE /\ cleanupCalls' = cleanupCalls + 1
                /\ \E c \in CleanupRets :
                      ealState' = IF c = "error" THEN "cleanup_assert_failed"
                                  ELSE "cleaned"

\* A variant of EalRelease that also retries the garbage list whenever a
\* reference is released while the Eal stays alive.
RECURSIVE RetryGarbages(_, _, _)
RetryGarbages(g, ar, rc) ==
    IF g = <<>> THEN [left |-> <<>>, arena |-> ar]
    ELSE LET r == TryCollect(Head(g), ar, rc)
             t == RetryGarbages(Tail(g), r.arena, rc)
         IN  [left |-> IF r.ok THEN t.left ELSE <<Head(g)>> \o t.left,
              arena |-> t.arena]

EalReleaseRetrying(strong, g, ar) ==
    IF strong = 0 THEN EalInnerDrop(g, ar)
    ELSE LET t == RetryGarbages(g, ar, refcnt)
         IN  /\ arena' = t.arena
             /\ garbages' = t.left
             /\ UNCHANGED <<ealState, cleanupCalls>>

\* One Arc<EalInner> reference is released, leaving `strong` of them;
\* EalInner::drop runs iff none is left.  g and ar are the garbage list and
\* the arenas at that moment.
EalRelease(strong, g, ar) ==
    IF strong = 0 THEN EalInnerDrop(g, ar)
    ELSE /\ arena' = ar
         /\ garbages' = g
         /\ UNCHANGED <<ealState, cleanupCalls>>

\* Arc<EalInner> references: the `Eal` values and the live MPoolInner.
EalStrong == ealClones + Cardinality({p \in Pools : mpoolClones[p] > 0})

\* ============================================================ Eal::setup
\* NUMA nodes; rte_eth_dev_socket_id answers -1 for a port whose node it
\* does not know.
Sockets == 0..(NumSockets - 1)
UnknownSocket == 0 - 1

\* The machines setup may run on: at least the main lcore is enabled, every
\* enabled lcore is on a node, every port is on a node or on an unknown one.
Topologies ==
    {tp \in [enabled : (SUBSET Lcores) \ {{}},
             lsock : [Lcores -> Sockets],
             psock : [Ports -> Sockets \cup {UnknownSocket}]] :
        \A l \in Lcores \ tp.enabled : tp.lsock[l] = 0}

\* The machine in which every lcore is enabled and lcores and ports are
\* spread over the nodes round-robin.
RoundRobinTopology ==
    [enabled |-> Lcores,
     lsock |-> [l \in Lcores |-> l % NumSockets],
     psock |-> [p \in Ports |-> p % NumSockets]]

\* lcore_id_list: the lcores rte_lcore_is_enabled reports.
EnabledLcoresAll == Lcores

EnabledLcores == topo.enabled

\* NUMA node of an lcore (rte_lcore_to_socket_id) and of a port
\* (rte_eth_dev_socket_id) in the modelled machine.
LcoreSocket(l) == topo.lsock[l]
PortSocket(p) == topo.psock[p]

\* socket_to_lcore_map: socket id -> set of enabled lcores on it.
SocketToLcoreMap ==
    [s \in {LcoreSocket(l) : l \in EnabledLcores} |->
        {l \in EnabledLcores : LcoreSocket(l) = s}]

\* Port::socket_id: `rte_eth_dev_socket_id(..).try_into().unwrap()` into u32
\* panics on a negative node id.
PortSocketIdPanics(p) == PortSocket(p) < 0

\* `socket_to_lcore_map.get(&socket_id).unwrap()` panics on a missing key.
AffinityPanics(affinity, socket_id) ==
    affinity = "Numa" /\ socket_id \notin DOMAIN SocketToLcoreMap

SelectLcoresIgnoringNuma(affinity, socket_id) ==
    UNION {SocketToLcoreMap[s] : s \in DOMAIN SocketToLcoreMap}

SelectLcoresNumaOnly(affinity, socket_id) ==
    IF socket_id \in DOMAIN SocketToLcoreMap
    THEN SocketToLcoreMap[socket_id] ELSE {}

\* rx_lcores / tx_lcores of a port for an affinity.
SelectLcores(affinity, socket_id) ==
    IF affinity = "Full"
    THEN UNION {SocketToLcoreMap[s] : s \in DOMAIN SocketToLcoreMap}
    ELSE IF socket_id \in DOMAIN SocketToLcoreMap
         THEN SocketToLcoreMap[socket_id] ELSE {}

Affinities == {"Full", "Numa"}

\* ErrorCode: TryFrom<u32>, `code.try_into()?` into u8, then unwrap().
ErrorCodeTryFromU32(code) ==
    IF code <= U8Max THEN [tag |-> "Err", code |-> code] ELSE [tag |-> "panic"]

\* Descriptor ring sizes setup asks for.
DEFAULT_TX_DESC == 128
DEFAULT_RX_DESC == 128
DEFAULT_TX_BURST == 32

\* rte_eth_dev_info before rte_eth_dev_info_get fills it: std::mem::zeroed().
NoDescLim == [nb_max |-> 0, nb_min |-> 0, nb_align |-> 0]
NoDevInfo == [max_rx_queues |-> 0, max_tx_queues |-> 0,
              rx_desc_lim |-> NoDescLim, tx_desc_lim |-> NoDescLim]

\* The limits rte_eth_dev_info_get may report for a port: queue counts that
\* admit one lcore or all of them, and descriptor limits that admit the
\* default ring size, or have a maximum below it, a minimum above it, or an
\* alignment that does not divide it.  At most one of the four limits is
\* not the generous one.
GenerousDescLim == [nb_max |-> 4096, nb_min |-> 64, nb_align |-> 32]
DescLims == {GenerousDescLim,
             [nb_max |-> 64, nb_min |-> 32, nb_align |-> 32],
             [nb_max |-> 4096, nb_min |-> 256, nb_align |-> 32],
             [nb_max |-> 4096, nb_min |-> 64, nb_align |-> 96]}
QueueLimits == {1, NumLcores}
DevInfos ==
    {d \in [max_rx_queues : QueueLimits, max_tx_queues : QueueLimits,
            rx_desc_lim : DescLims, tx_desc_lim : DescLims] :
        Cardinality({f \in {"max_rx_queues", "max_tx_queues"} : d[f] # NumLcores}
                    \cup {f \in {"rx_desc_lim", "tx_desc_lim"} :
                              d[f] # GenerousDescLim}) <= 1}

LimitsOkQueuesOnly(dev_info, rx_queue_count, tx_queue_count) ==
    /\ rx_queue_count <= dev_info.max_rx_queues
    /\ tx_queue_count <= dev_info.max_tx_queues

\* "Validate configuration numbers": the eight asserts before
\* rte_eth_dev_configure.
LimitsOk(dev_info, rx_queue_count, tx_queue_count) ==
    /\ rx_queue_count <= dev_info.max_rx_queues
    /\ tx_queue_count <= dev_info.max_tx_queues
    /\ DEFAULT_RX_DESC <= dev_info.rx_desc_lim.nb_max
    /\ DEFAULT_RX_DESC >= dev_info.rx_desc_lim.nb_min
    /\ DEFAULT_RX_DESC % dev_info.rx_desc_lim.nb_align = 0
    /\ DEFAULT_TX_DESC <= dev_info.tx_desc_lim.nb_max
    /\ DEFAULT_TX_DESC >= dev_info.tx_desc_lim.nb_min
    /\ DEFAULT_TX_DESC % dev_info.tx_desc_lim.nb_align = 0

ClosedPort == [owner |-> 0, configured |-> FALSE, nb_rx |-> 0, nb_tx |-> 0,
               rxq |-> {}, txq |-> {}, rx_mpool |-> {}, started |-> FALSE,
               has_stats_reset |-> TRUE]

\* lcore_to_rxqtxq_map before any queue is created.  An lcore has an entry
\* in the HashMap iff one of its two lists is not empty; a queue is written
\* as the port it belongs to (its queue_id is in `served` while the loop
\* that creates it runs, and in the port's native state).
EmptyLcoreMap == [l \in Lcores |-> [rx |-> <<>>, tx |-> <<>>]]

\* The keys of lcore_to_rxqtxq_map.
LcoresIn(map) == {l \in Lcores : map[l].rx # <<>> \/ map[l].tx # <<>>}

\* The orders in which a HashMap or HashSet with the key set S may iterate.
IterationOrders(S) ==
    {sq \in [1..Cardinality(S) -> S] :
        \A i, j \in 1..Cardinality(S) : i # j => sq[i] # sq[j]}

\* lcore_to_rxqtxq_map.into_iter().map(..).collect() for the iteration
\* order `order`: the returned Vec<(LCoreId, Vec<RxQ>, Vec<TxQ>)>.
MapIntoVec(map, order) ==
    [i \in 1..Len(order) |->
        [lcore |-> order[i], rx |-> map[order[i]].rx, tx |-> map[order[i]].tx]]

\* Native port state before any setup: no port owned, configured or started.
HwInit == [port |-> [p \in Ports |-> ClosedPort @@ [by |-> 0]], next_owner |-> 1]

\* The identity of thread t's current setup call.
CallId(t) == <<t, calls[t]>>

\* History: the calls that performed native configuration, in order, with
\* consecutive operations of one call recorded once.
LogHw(t) ==
    IF hist.log # <<>> /\ hist.log[Len(hist.log)] = CallId(t)
    THEN hist
    ELSE [hist EXCEPT !.log = Append(@, CallId(t))]

\* Ports whose Port value the call of thread t has created so far.
PortsOf(t) == {p \in Ports : hw.port[p].owner # 0 /\ hw.port[p].by = t}

\* History: the statement of setup that panicked ("socket_id": the unwrap
\* in Port::socket_id; "socket_to_lcore_map": get(&socket_id).unwrap();
\* "limits": an assert on the port's queue and descriptor limits;
\* "stats_reset": Arc::get_mut(..).unwrap(); "create_mpool":
\* NonNull::new(ptr).unwrap(); "assert": an assert on a status returned by
\* the device layer).
NoPanic == [site |-> "none", by |-> 0, port |-> 0, queues |-> 0]
PanicAt(h, site, t) ==
    [h EXCEPT !.panic =
        [site |-> site, by |-> t, port |-> cur[t].port,
         queues |-> Cardinality(hw.port[cur[t].port].rxq)
                    + Cardinality(hw.port[cur[t].port].txq)]]

\* The locals of a setup call after the call has ended: port_list, the
\* lcore sets and lcore_to_rxqtxq_map are gone (dropped by the unwinding, or
\* moved into the returned Vec).
Ended(c) == [c EXCEPT !.port = 0, !.served = <<>>, !.lmap = EmptyLcoreMap,
                       !.dev_info = NoDevInfo]

\* A panic inside setup (a failed assert or unwrap) while `shared_mut` is
\* held.  Unwinding drops the call's locals: every Port created by the call
\* (PortInner::drop: owner_unset, stop, close), the queues and their pools,
\* and last the MutexGuard, which poisons and unlocks `shared`.  If a pool
\* of a started port is dropped while the receive ring still holds its mbufs,
\* MPoolInner::drop locks `shared` again on the same thread and never
\* returns: the thread is stuck holding the lock.
SetupPanic(t, h) ==
    \/ /\ pc' = [pc EXCEPT ![t] = "dead"]
       /\ ret' = [ret EXCEPT ![t] = [tag |-> "panic"]]
       /\ lock' = 0
       /\ poisoned' = TRUE
       /\ hw' = [h EXCEPT !.port =
                    [p \in Ports |-> IF h.port[p].owner # 0 /\ h.port[p].by = t
                                     THEN ClosedPort @@ [by |-> 0]
                                     ELSE h.port[p]]]
    \/ /\ \E p \in Ports : /\ h.port[p].by = t
                           /\ h.port[p].started /\ h.port[p].rxq # {}
       /\ pc' = [pc EXCEPT ![t] = "stuck"]
       /\ hw' = h
       /\ UNCHANGED <<ret, lock, poisoned>>

\* A caller invokes setup on its clone of the Eal.
SetupCall(t) ==
    /\ pc[t] = "idle"
    /\ calls[t] < MaxCalls
    /\ pc' = [pc EXCEPT ![t] = "lock"]
    /\ calls' = [calls EXCEPT ![t] = @ + 1]
    /\ ret' = [ret EXCEPT ![t] = [tag |-> "none"]]
    /\ cur' = [cur EXCEPT ![t] = [port |-> 0, served |-> <<>>, ops |-> 0,
                                  late |-> setup_initialized,
                                  contended |-> lock # 0,
                                  hw0 |-> IF setup_initialized THEN hw ELSE HwInit,
                                  lmap |-> EmptyLcoreMap,
                                  dev_info |-> NoDevInfo]]
    /\ UNCHANGED <<setup_initialized, lock, poisoned, args, hw, hist,
                   lifeVars, txVars, objVars, topo>>

\* A variant of SetupLock using try_lock: a held mutex is reported as an
\* error at once instead of waiting for it.
SetupTryLock(t) ==
    /\ pc[t] = "lock"
    /\ IF lock # 0
       THEN /\ pc' = [pc EXCEPT ![t] = "idle"]
            /\ ret' = [ret EXCEPT ![t] = ErrorCodeTryFromU32(EALREADY)]
            /\ lock' = lock
       ELSE IF poisoned
       THEN /\ pc' = [pc EXCEPT ![t] = "dead"]
            /\ ret' = [ret EXCEPT ![t] = [tag |-> "panic"]]
            /\ lock' = lock
       ELSE /\ pc' = [pc EXCEPT ![t] = "check"]
            /\ lock' = t
            /\ ret' = ret
    /\ UNCHANGED <<setup_initialized, poisoned, args, cur, calls, hw, hist,
                   lifeVars, txVars, objVars, topo>>

\* A variant of SetupLock that does not wait for the mutex to be free.
SetupLockNoExclusion(t) ==
    /\ pc[t] = "lock"
    /\ pc' = [pc EXCEPT ![t] = "check"]
    /\ lock' = t
    /\ UNCHANGED <<setup_initialized, poisoned, args, cur, calls, ret, hw, hist,
                   lifeVars, txVars, objVars, topo>>

\* `self.inner.shared.lock().unwrap()`: waits until the mutex is free; a
\* poisoned mutex makes unwrap panic (the guard inside the error is dropped).
SetupLock(t) ==
    /\ pc[t] = "lock"
    /\ lock = 0
    /\ IF poisoned
       THEN /\ pc' = [pc EXCEPT ![t] = "dead"]
            /\ ret' = [ret EXCEPT ![t] = [tag |-> "panic"]]
            /\ lock' = lock
       ELSE /\ pc' = [pc EXCEPT ![t] = "check"]
            /\ lock' = t
            /\ ret' = ret
    /\ UNCHANGED <<setup_initialized, poisoned, args, cur, calls, hw, hist,
                   lifeVars, txVars, objVars, topo>>

\* A variant of SetupCheck that ignores setup_initialized.
SetupCheckIgnoringFlag(t) ==
    /\ pc[t] = "check"
    /\ \E rx \in Affinities, tx \in Affinities :
          args' = [args EXCEPT ![t] = <<rx, tx>>]
    /\ pc' = [pc EXCEPT ![t] = "own"]
    /\ cur' = [cur EXCEPT ![t].port = 1]
    /\ UNCHANGED <<setup_initialized, lock, poisoned, calls, ret, hw, hist,
                   lifeVars, txVars, objVars, topo>>

\* `if shared_mut.setup_initialized { return Err(EALREADY...) }`; the guard
\* is dropped on return.  Otherwise the call goes on with its affinities.
SetupCheck(t) ==
    /\ pc[t] = "check"
    /\ IF setup_initialized
       THEN /\ ret' = [ret EXCEPT ![t] = ErrorCodeTryFromU32(EALREADY)]
            /\ pc' = [pc EXCEPT ![t] =
                        IF ErrorCodeTryFromU32(EALREADY).tag = "Err"
                        THEN "idle" ELSE "dead"]
            /\ lock' = 0
            /\ poisoned' = (ErrorCodeTryFromU32(EALREADY).tag # "Err")
            /\ UNCHANGED <<args, cur>>
       ELSE /\ \E rx \in Affinities, tx \in Affinities :
                  args' = [args EXCEPT ![t] = <<rx, tx>>]
            /\ pc' = [pc EXCEPT ![t] = "own"]
            /\ cur' = [cur EXCEPT ![t].port = 1]
            /\ UNCHANGED <<ret, lock, poisoned>>
    /\ UNCHANGED <<setup_initialized, calls, hw, hist, lifeVars, txVars, objVars, topo>>

\* port_list: for one valid port, rte_eth_dev_owner_new and
\* rte_eth_dev_owner_set (which fails on a port another owner holds), each
\* followed by assert_eq!(ret, 0).
SetupOwnPort(t) ==
    /\ pc[t] = "own"
    /\ LET p == cur[t].port
           id == hw.next_owner
           h1 == [hw EXCEPT !.next_owner = @ + 1]
       IN  /\ IF hw.port[p].owner # 0
              THEN /\ SetupPanic(t, h1)
                   /\ hist' = PanicAt(LogHw(t), "assert", t)
                   /\ cur' = [cur EXCEPT ![t] = Ended([@ EXCEPT !.ops = @ + 1])]
              ELSE /\ hist' = LogHw(t)
                   /\ hw' = [h1 EXCEPT !.port[p].owner = id, !.port[p].by = t]
                   /\ cur' = [cur EXCEPT ![t].ops = @ + 1,
                                         ![t].port = IF p < NumPorts THEN p + 1 ELSE 1]
                   /\ pc' = [pc EXCEPT ![t] =
                               IF p < NumPorts THEN "own" ELSE "configure"]
                   /\ UNCHANGED <<ret, lock, poisoned>>
    /\ UNCHANGED <<setup_initialized, args, calls, lifeVars, txVars, objVars, topo>>

\* For the current port: port.socket_id(), the lcore sets and
\* rte_eth_dev_info_get, which fills dev_info with the port's limits.
SetupDevInfo(t) ==
    /\ pc[t] = "configure"
    /\ LET p == cur[t].port
       IN  IF PortSocketIdPanics(p)
           THEN /\ SetupPanic(t, hw)
                /\ hist' = PanicAt(hist, "socket_id", t)
                /\ cur' = [cur EXCEPT ![t] = Ended(@)]
           ELSE IF \/ AffinityPanics(args[t][1], PortSocket(p))
                   \/ AffinityPanics(args[t][2], PortSocket(p))
           THEN /\ SetupPanic(t, hw)
                /\ hist' = PanicAt(hist, "socket_to_lcore_map", t)
                /\ cur' = [cur EXCEPT ![t] = Ended(@)]
           ELSE /\ \E info \in DevInfos :
                     cur' = [cur EXCEPT ![t].dev_info = info]
                /\ pc' = [pc EXCEPT ![t] = "validate"]
                /\ UNCHANGED <<ret, lock, poisoned, hw, hist>>
    /\ UNCHANGED <<setup_initialized, args, calls, lifeVars, txVars, objVars, topo>>

\* The asserts on the queue counts and the default descriptor ring sizes,
\* then rte_eth_dev_configure(port_id, rx_queue_count, tx_queue_count, ..)
\* with assert_eq!(ret, 0).
SetupConfigure(t) ==
    /\ pc[t] = "validate"
    /\ LET p == cur[t].port
           rx_queue_count == Cardinality(SelectLcores(args[t][1], PortSocket(p)))
           tx_queue_count == Cardinality(SelectLcores(args[t][2], PortSocket(p)))
       IN  \E ok \in BOOLEAN :
             IF ~LimitsOk(cur[t].dev_info, rx_queue_count, tx_queue_count)
             THEN /\ SetupPanic(t, hw)
                  /\ hist' = PanicAt(hist, "limits", t)
                  /\ cur' = [cur EXCEPT ![t] = Ended(@)]
             ELSE IF ~ok
             THEN /\ SetupPanic(t, hw)
                  /\ hist' = PanicAt(hist, "assert", t)
                  /\ cur' = [cur EXCEPT ![t] = Ended(@)]
             ELSE /\ hw' = [hw EXCEPT !.port[p].configured = TRUE,
                                      !.port[p].nb_rx = rx_queue_count,
                                      !.port[p].nb_tx = tx_queue_count]
                  /\ hist' = LogHw(t)
                  /\ cur' = [cur EXCEPT ![t].ops = @ + 1, ![t].served = <<>>,
                                        ![t].dev_info = NoDevInfo]
                  /\ pc' = [pc EXCEPT ![t] = "rxq"]
                  /\ UNCHANGED <<ret, lock, poisoned>>
    /\ UNCHANGED <<setup_initialized, args, calls, lifeVars, txVars, objVars, topo>>

\* The lcores the running loop has served, with the index `enumerate` gave
\* each, and the lcores of the current port's rx_lcores / tx_lcores it has
\* not reached yet.
ServedLcores(t) == {cur[t].served[i].lcore : i \in 1..Len(cur[t].served)}
RxLcoresLeft(t) ==
    SelectLcores(args[t][1], PortSocket(cur[t].port)) \ ServedLcores(t)
TxLcoresLeft(t) ==
    SelectLcores(args[t][2], PortSocket(cur[t].port)) \ ServedLcores(t)

EnumerateIndexFixed(served) == 0

\* The characters of MAGIC ("be0dd4ab") and of the decimal form `{}` gives
\* an integer.
MAGIC == <<"b", "e", "0", "d", "d", "4", "a", "b">>
Digit(d) == <<"0", "1", "2", "3", "4", "5", "6", "7", "8", "9">>[d + 1]
RECURSIVE Decimal(_)
Decimal(n) == IF n < 10 THEN <<Digit(n)>>
              ELSE Decimal(n \div 10) \o <<Digit(n % 10)>>

PoolNameNoIndex(port_id, rxq_idx) ==
    <<"r", "x", "q", "_">> \o MAGIC \o <<"_">> \o Decimal(port_id)

\* format!("rxq_{}_{}_{}", MAGIC, port_id, rxq_idx), as characters.
PoolName(port_id, rxq_idx) ==
    <<"r", "x", "q", "_">> \o MAGIC \o <<"_">> \o Decimal(port_id)
        \o <<"_">> \o Decimal(rxq_idx)

\* The names of the pools setup has created and not released: each RxQ
\* holds the pool created for it.  rte_pktmbuf_pool_create returns NULL for
\* a name in use, and create_mpool panics at NonNull::new(ptr).unwrap().
MPoolNames(h) ==
    UNION {{m.name : m \in h.port[q].rx_mpool} : q \in Ports}

\* The index `enumerate()` gives the next item of the loop.
EnumerateIndex(served) == Len(served)

\* One round of the RX loop, for the lcore the HashSet yields next:
\* create_mpool("rxq_<MAGIC>_<port>_<idx>"), rte_eth_rx_queue_setup with
\* assert_eq!(ret, 0), and the RxQ (queue_id, port, mpool) pushed to the
\* lcore's entry; after the last lcore the call moves on to the TX loop.
SetupRxQueue(t) ==
    /\ pc[t] = "rxq"
    /\ LET p == cur[t].port
           rxq_idx == EnumerateIndex(cur[t].served)
       IN  IF RxLcoresLeft(t) # {}
           THEN \E rx_lcore \in RxLcoresLeft(t), ok \in BOOLEAN :
                  IF PoolName(p, rxq_idx) \in MPoolNames(hw)
                  THEN /\ SetupPanic(t, hw)
                       /\ hist' = PanicAt(hist, "create_mpool", t)
                       /\ cur' = [cur EXCEPT ![t] = Ended(@)]
                  ELSE IF ~ok
                  THEN /\ SetupPanic(t, hw)
                       /\ hist' = PanicAt(hist, "assert", t)
                       /\ cur' = [cur EXCEPT ![t] = Ended(@)]
                  ELSE /\ hw' = [hw EXCEPT
                                   !.port[p].rxq = @ \cup {rxq_idx},
                                   !.port[p].rx_mpool = @ \cup
                                       {[queue_id |-> rxq_idx,
                                         name |-> PoolName(p, rxq_idx)]}]
                       /\ hist' = LogHw(t)
                       /\ cur' = [cur EXCEPT
                                    ![t].ops = @ + 1,
                                    ![t].served = Append(@, [lcore |-> rx_lcore,
                                                             queue_id |-> rxq_idx]),
                                    ![t].lmap[rx_lcore].rx = Append(@, p)]
                       /\ UNCHANGED <<pc, ret, lock, poisoned>>
           ELSE /\ pc' = [pc EXCEPT ![t] = "txq"]
                /\ cur' = [cur EXCEPT ![t].served = <<>>]
                /\ UNCHANGED <<ret, lock, poisoned, hw, hist>>
    /\ UNCHANGED <<setup_initialized, args, calls, lifeVars, txVars, objVars, topo>>

\* One round of the TX loop: rte_eth_tx_queue_setup with assert_eq!(ret, 0)
\* and the TxQ (queue_id, port; no pool) pushed to the lcore's entry.
SetupTxQueue(t) ==
    /\ pc[t] = "txq"
    /\ LET p == cur[t].port
           txq_idx == EnumerateIndex(cur[t].served)
       IN  IF TxLcoresLeft(t) # {}
           THEN \E tx_lcore \in TxLcoresLeft(t), ok \in BOOLEAN :
                  IF ~ok
                  THEN /\ SetupPanic(t, hw)
                       /\ hist' = PanicAt(hist, "assert", t)
                       /\ cur' = [cur EXCEPT ![t] = Ended(@)]
                  ELSE /\ hw' = [hw EXCEPT !.port[p].txq = @ \cup {txq_idx}]
                       /\ hist' = LogHw(t)
                       /\ cur' = [cur EXCEPT
                                    ![t].ops = @ + 1,
                                    ![t].served = Append(@, [lcore |-> tx_lcore,
                                                             queue_id |-> txq_idx]),
                                    ![t].lmap[tx_lcore].tx = Append(@, p)]
                       /\ UNCHANGED <<pc, ret, lock, poisoned>>
           ELSE /\ pc' = [pc EXCEPT ![t] = "start"]
                /\ cur' = [cur EXCEPT ![t].served = <<>>]
                /\ UNCHANGED <<ret, lock, poisoned, hw, hist>>
    /\ UNCHANGED <<setup_initialized, args, calls, lifeVars, txVars, objVars, topo>>

\* Outcomes of rte_eth_stats_reset: 0, -ENOTSUP, or another status.
StatsResetRets == {"ok", "enotsup", "other"}

\* Strong count of port.inner: the loop's Port plus one clone in every RxQ
\* and TxQ created for the port.
PortInnerStrong(h, p) ==
    1 + Cardinality(h.port[p].rxq) + Cardinality(h.port[p].txq)

\* Arc::get_mut(&mut port.inner): Some iff no other reference exists.
ArcGetMutIsSome(strong) == strong = 1

\* Promiscuous mode, rte_eth_dev_start with assert_eq!(ret, 0) and the
\* statistics reset probe: on -ENOTSUP,
\* Arc::get_mut(&mut port.inner).unwrap().has_stats_reset = false.  Then the
\* next port, or the end of the loop.
SetupStart(t) ==
    /\ pc[t] = "start"
    /\ LET p == cur[t].port
           h1 == [hw EXCEPT !.port[p].started = TRUE]
       IN  \E ok \in BOOLEAN, sr \in StatsResetRets :
             IF ~ok
             THEN /\ SetupPanic(t, hw)
                  /\ hist' = PanicAt(hist, "assert", t)
                  /\ cur' = [cur EXCEPT ![t] = Ended(@)]
             ELSE IF sr = "enotsup" /\ ~ArcGetMutIsSome(PortInnerStrong(h1, p))
             THEN /\ SetupPanic(t, h1)
                  /\ hist' = PanicAt(LogHw(t), "stats_reset", t)
                  /\ cur' = [cur EXCEPT ![t] = Ended([@ EXCEPT !.ops = @ + 1])]
             ELSE /\ hw' = [h1 EXCEPT !.port[p].has_stats_reset = (sr # "enotsup")]
                  /\ hist' = LogHw(t)
                  /\ cur' = [cur EXCEPT ![t].ops = @ + 1,
                                        ![t].port = IF p < NumPorts THEN p + 1 ELSE p]
                  /\ pc' = [pc EXCEPT ![t] =
                              IF p < NumPorts THEN "configure" ELSE "finish"]
                  /\ UNCHANGED <<ret, lock, poisoned>>
    /\ UNCHANGED <<setup_initialized, args, calls, lifeVars, txVars, objVars, topo>>

\* `shared_mut.setup_initialized = true; Ok(...)`: the guard is dropped as
\* the call returns.
SetupFinish(t) ==
    /\ pc[t] = "finish"
    /\ setup_initialized' = TRUE
    /\ lock' = 0
    /\ pc' = [pc EXCEPT ![t] = "idle"]
    /\ \E order \in IterationOrders(LcoresIn(cur[t].lmap)) :
         ret' = [ret EXCEPT ![t] =
                   [tag |-> "Ok", list |-> MapIntoVec(cur[t].lmap, order)]]
    /\ hist' = [hist EXCEPT !.ok = @ + 1]
    /\ cur' = [cur EXCEPT ![t] = Ended(@)]
    /\ UNCHANGED <<poisoned, args, calls, hw, lifeVars, txVars, objVars, topo>>

\* What thread t can do next.
ThreadStep(t) ==
    \/ SetupCall(t)
    \/ SetupLock(t)
    \/ SetupCheck(t)
    \/ SetupOwnPort(t)
    \/ SetupDevInfo(t)
    \/ SetupConfigure(t)
    \/ SetupRxQueue(t)
    \/ SetupTxQueue(t)
    \/ SetupStart(t)
    \/ SetupFinish(t)

\* No setup call made yet, no port touched.
InitSetupState ==
    /\ setup_initialized = FALSE
    /\ lock = 0
    /\ poisoned = FALSE
    /\ pc = [t \in Threads |-> "idle"]
    /\ args = [t \in Threads |-> <<"Full", "Full">>]
    /\ cur = [t \in Threads |-> [port |-> 0, served |-> <<>>, ops |-> 0,
                                 late |-> FALSE, contended |-> FALSE,
                                 hw0 |-> HwInit, lmap |-> EmptyLcoreMap,
                                 dev_info |-> NoDevInfo]]
    /\ calls = [t \in Threads |-> 0]
    /\ ret = [t \in Threads |-> [tag |-> "none"]]
    /\ hw = HwInit
    /\ hist = [ok |-> 0, log |-> <<>>, panic |-> NoPanic]

InitSetupIdle ==
    /\ InitSetupState
    /\ topo = RoundRobinTopology

\* ---------------------------------------------------- setup properties
\* Positions of setup between the flag check and the return.
HwPcs == {"own", "configure", "validate", "rxq", "txq", "start", "finish"}

\* Thread t's last setup call has returned to its caller.
Returned(t) == pc[t] = "idle" /\ calls[t] > 0

\* C2: a setup call made after a setup call succeeded returns the "already
\* initialized" ErrorCode (EALREADY) and performs no native configuration:
\* it never enters the configuration steps and the ports' native state when
\* it ends is what it was when the call was made.
C2_SecondSetupRejected ==
    \A t \in Threads :
        cur[t].late =>
            /\ pc[t] \in {"lock", "check", "idle"}
            /\ cur[t].ops = 0
            /\ hw = cur[t].hw0
            /\ Returned(t) => ret[t] = [tag |-> "Err", code |-> EALREADY]

\* C2 witness: a thread's second call, made after a success, has returned
\* the error.
C2_Witness ==
    \E t \in Threads :
        /\ Returned(t) /\ cur[t].late /\ calls[t] = 2
        /\ ret[t].tag = "Err" /\ hist.ok = 1

\* C3: over all interleavings of concurrent setup calls at most one returns
\* Ok, at most one call is inside the configuration steps at a time, and no
\* call's native configuration is interrupted by another call's.
C3_AtMostOneSetupSucceeds ==
    /\ hist.ok <= 1
    /\ Cardinality({t \in Threads : pc[t] \in HwPcs}) <= 1
    /\ \A i, j \in 1..Len(hist.log) : i # j => hist.log[i] # hist.log[j]

\* C3 witness: of two concurrent calls one returned Ok and the other, made
\* before the first had succeeded, returned the error.
C3_Witness ==
    \E t1, t2 \in Threads :
        /\ t1 # t2
        /\ Returned(t1) /\ ret[t1].tag = "Ok"
        /\ Returned(t2) /\ ret[t2].tag = "Err" /\ ~cur[t2].late

\* C4 (as claimed): a setup call made while another call holds the mutex is
\* not blocked: it can go on (and fail) without waiting for the holder.
C4_FailsFastWhenBusy ==
    \A t \in Threads :
        (pc[t] = "lock" /\ lock # 0) => ENABLED ThreadStep(t)

\* C4 (amended): a setup call made while another call is in progress waits:
\* it takes no step while the mutex is held, and once it has returned it has
\* not succeeded; it returned the "already initialized" ErrorCode.
C4_BlocksUntilReleased ==
    \A t \in Threads :
        /\ (pc[t] = "lock" /\ lock # 0) => ~ENABLED ThreadStep(t)
        /\ (cur[t].contended /\ Returned(t)) =>
              ret[t] = [tag |-> "Err", code |-> EALREADY]

\* C4 witness: a call made while another call was in progress has returned
\* the error after the other call succeeded.
C4_Witness ==
    \E t \in Threads :
        /\ cur[t].contended /\ Returned(t)
        /\ ret[t].tag = "Err" /\ lock = 0 /\ setup_initialized

\* ======================================================= lifecycle actions
\* Eal::clone.
EalClone ==
    /\ ealClones >= 1 /\ ealClones < MaxEalClones
    /\ ealClones' = ealClones + 1
    /\ UNCHANGED <<ealState, cleanupCalls, garbages, arena, mpoolClones, refcnt,
                   buffer, everDeferred, txVars, setupVars, objVars>>

\* Dropping an `Eal` value.
EalDrop ==
    /\ ealClones >= 1
    /\ ealClones' = ealClones - 1
    /\ EalRelease(EalStrong - 1, garbages, arena)
    /\ UNCHANGED <<mpoolClones, refcnt, buffer, everDeferred,
                   txVars, setupVars, objVars>>

NameInUseNever(p, ar) == FALSE

\* rte_pktmbuf_pool_create finds a pool of that name in the process: one
\* whose arena has not been freed, whether handles of it are left or its
\* release is waiting in garbages.
NameInUse(p, ar) == ar[p] = "created"

\* Eal::create_mpool with the name of pool p.  rte_pktmbuf_pool_create
\* returns NULL for a name in use, and also when it cannot get the memory
\* (`enomem`); NonNull::new(ptr).unwrap() then panics before the MPoolInner
\* and its Arc<EalInner> clone are built.  Otherwise the new pool has all its
\* mbufs free and one handle.  A name is not used again once its arena was
\* freed.
CreateMPool(p) ==
    /\ ealClones >= 1
    /\ arena[p] # "freed"
    /\ \E enomem \in BOOLEAN :
          IF NameInUse(p, arena) \/ enomem
          THEN /\ lastOp' = Record([op |-> "create_mpool", name |-> p,
                                     outcome |-> "panic"])
               /\ UNCHANGED <<arena, mpoolClones>>
          ELSE /\ lastOp' = Record([op |-> "create_mpool", name |-> p,
                                     outcome |-> "Ok"])
               /\ arena' = [arena EXCEPT ![p] = "created"]
               /\ mpoolClones' = [mpoolClones EXCEPT ![p] = 1]
    /\ UNCHANGED <<ealClones, ealState, cleanupCalls, garbages, refcnt, buffer,
                   everDeferred, nicHeld, setupVars, objVars>>

\* MPool::clone.
MPoolClone(p) ==
    /\ mpoolClones[p] >= 1 /\ mpoolClones[p] < MaxMPoolClones
    /\ mpoolClones' = [mpoolClones EXCEPT ![p] = @ + 1]
    /\ UNCHANGED <<ealClones, ealState, cleanupCalls, garbages, arena, refcnt,
                   buffer, everDeferred, txVars, setupVars, objVars>>

\* Dropping an `MPool` value; the last one runs MPoolInner::drop and then
\* releases the MPoolInner's Arc<EalInner>.
MPoolDrop(p) ==
    /\ mpoolClones[p] >= 1
    /\ mpoolClones' = [mpoolClones EXCEPT ![p] = @ - 1]
    /\ IF mpoolClones[p] > 1
       THEN UNCHANGED <<ealState, cleanupCalls, garbages, arena, everDeferred>>
       ELSE LET r == TryCollect(p, arena, refcnt)
                g == Deferred(r.ok, garbages, p)
            IN  /\ everDeferred' = IF r.ok THEN everDeferred
                                   ELSE everDeferred \cup {p}
                /\ EalRelease(EalStrong - 1, g, r.arena)
    /\ UNCHANGED <<ealClones, refcnt, buffer, txVars, setupVars, objVars>>

\* A variant of AllocMbuf that hands out an mbuf of the pool even when none
\* is free.
AllocMbufRecycling(p, rc) == Min(MbufsOf(p))

\* rte_pktmbuf_alloc: a free mbuf of the pool, or NULL (0) when none is free.
AllocMbuf(p, rc) ==
    IF FreeMbufs(p, rc) = {} THEN 0 ELSE Min(FreeMbufs(p, rc))

\* MPool::alloc: `NonNull::new(pkt_ptr)?` turns NULL into None.  The caller
\* keeps the Packet it gets in its ArrayVec.
Alloc(p) ==
    /\ mpoolClones[p] >= 1
    /\ Len(buffer) < BufCap
    /\ LET pkt_ptr == AllocMbuf(p, refcnt)
       IN  /\ IF pkt_ptr = 0
              THEN UNCHANGED <<refcnt, buffer>>
              ELSE /\ refcnt' = [refcnt EXCEPT ![pkt_ptr] = 1]
                   /\ buffer' = Append(buffer, pkt_ptr)
           /\ lastOp' = Record([op |-> "alloc", pre |-> buffer, rc |-> refcnt,
                                pool |-> p, got |-> pkt_ptr])
    /\ UNCHANGED <<ealClones, ealState, cleanupCalls, garbages, arena,
                   mpoolClones, everDeferred, nicHeld, setupVars, objVars>>

\* A variant of PktmbufAllocBulk that fails after drawing what was free.
PktmbufAllocBulkPartial(free, count) ==
    IF Cardinality(free) >= count
    THEN [ok |-> TRUE, got |-> TakeMin(free, count)]
    ELSE [ok |-> FALSE, got |-> TakeMin(free, count)]

\* rte_pktmbuf_alloc_bulk: draws `count` mbufs from the pool's free mbufs
\* and returns 0, or draws none and fails.
PktmbufAllocBulk(free, count) ==
    IF Cardinality(free) >= count
    THEN [ok |-> TRUE, got |-> TakeMin(free, count)]
    ELSE [ok |-> FALSE, got |-> <<>>]

\* MPool::alloc_bulk: the mbufs are written behind the buffer's contents and
\* set_len(capacity) is called only when the native call returned 0.
AllocBulk(p) ==
    /\ mpoolClones[p] >= 1
    /\ LET current_offset == Len(buffer)
           capacity == BufCap
           remaining == capacity - current_offset
           r == PktmbufAllocBulk(FreeMbufs(p, refcnt), remaining)
       IN  /\ buffer' = IF r.ok THEN buffer \o r.got ELSE buffer
           /\ refcnt' = [m \in Mbufs |->
                           IF m \in Range(r.got) THEN 1 ELSE refcnt[m]]
           /\ lastOp' = Record([op |-> "alloc_bulk", pre |-> buffer,
                                rc |-> refcnt, pool |-> p, ok |-> r.ok])
    /\ UNCHANGED <<ealClones, ealState, cleanupCalls, garbages, arena,
                   mpoolClones, everDeferred, nicHeld, setupVars, objVars>>

\* rx: `remaining as u16`, the packet count rx asks rte_eth_rx_burst for.
RxAsked(remaining) == remaining % U16Mod

\* A variant of RxStore that writes the received mbufs at the buffer's head.
RxStoreAtHead(buf, got) == got \o buf

\* rx: rte_eth_rx_burst writes the received mbufs at pkt_buffer.add(current).
RxStore(buf, got) == buf \o got

\* RxQ::rx on a queue whose RxQInner holds one of the pool's MPoolInner
\* references: rte_eth_rx_burst stores cnt received mbufs of the queue's
\* pool, cnt at most the count asked for, then set_len(current + cnt).
Rx(p) ==
    /\ mpoolClones[p] >= 1
    /\ LET current == Len(buffer)
           remaining == BufCap - current
           free == FreeMbufs(p, refcnt)
       IN  \E cnt \in 0..RxAsked(remaining) :
             /\ cnt <= Cardinality(free)
             /\ LET got == TakeMin(free, cnt)
                IN  /\ buffer' = SubSeq(RxStore(buffer, got), 1, current + cnt)
                    /\ refcnt' = [m \in Mbufs |->
                                    IF m \in Range(got) THEN 1 ELSE refcnt[m]]
                    /\ lastOp' = Record([op |-> "rx", pre |-> buffer,
                                         rc |-> refcnt, pool |-> p,
                                         cnt |-> cnt,
                                         asked |-> RxAsked(remaining)])
    /\ UNCHANGED <<ealClones, ealState, cleanupCalls, garbages, arena,
                   mpoolClones, everDeferred, nicHeld, setupVars, objVars>>

\* ArrayVec::remove(i - 1) followed by Packet::drop of the removed value:
\* rte_pktmbuf_free on its mbuf.
PacketDrop(i) ==
    /\ i \in 1..Len(buffer)
    /\ buffer' = SubSeq(buffer, 1, i - 1) \o SubSeq(buffer, i + 1, Len(buffer))
    /\ refcnt' = PktmbufFreeAll(<<buffer[i]>>, refcnt)
    /\ lastOp' = Record(NoOp)
    /\ UNCHANGED <<ealClones, ealState, cleanupCalls, garbages, arena,
                   mpoolClones, everDeferred, nicHeld, setupVars, objVars>>

\* State after Eal::new succeeded: one Eal, nothing else.
InitLife ==
    /\ ealClones = 1
    /\ ealState = "alive"
    /\ cleanupCalls = 0
    /\ garbages = <<>>
    /\ arena = [p \in Pools |-> "none"]
    /\ mpoolClones = [p \in Pools |-> 0]
    /\ refcnt = [m \in Mbufs |-> 0]
    /\ buffer = <<>>
    /\ everDeferred = {}
    /\ nicHeld = <<>>
    /\ lastOp = NoRecord
    /\ InitSetupIdle
    /\ InitPacketIdle
    /\ InitEalNewDone
    /\ InitExtIdle
    /\ InitDownIdle
    /\ InitStatIdle

NextLife ==
    \/ EalClone
    \/ EalDrop
    \/ \E p \in Pools : CreateMPool(p)
    \/ \E p \in Pools : MPoolClone(p)
    \/ \E p \in Pools : MPoolDrop(p)
    \/ \E p \in Pools : Alloc(p)
    \/ \E p \in Pools : AllocBulk(p)
    \/ \E p \in Pools : Rx(p)
    \/ \E i \in 1..BufCap : PacketDrop(i)

SpecLife == InitLife /\ [][NextLife]_vars

\* ---------------------------------------------- concurrent MPoolInner::drop
\* A variant of MutexFree under which lock() never waits.
MutexAlwaysFree(holder) == TRUE

\* Mutex::lock waits until no thread holds the mutex.
MutexFree(holder) == holder = 0

\* Vec::push in two steps: the element is written at the length read before.
VecWrite(v, len, x) == SubSeq(v, 1, Min({len, Len(v)})) \o <<x>>

\* A thread drops the last `MPool` of pool p: MPoolInner::drop builds the
\* request and calls try_collect; a pool that is full is freed at once,
\* otherwise the thread goes on to hand the request to the Eal.
GcDrop(t, p) ==
    /\ gc[t].at = "idle"
    /\ mpoolClones[p] = 1
    /\ mpoolClones' = [mpoolClones EXCEPT ![p] = 0]
    /\ LET r == TryCollect(p, arena, refcnt)
       IN  /\ arena' = r.arena
           /\ everDeferred' = IF r.ok THEN everDeferred ELSE everDeferred \cup {p}
           /\ gc' = [gc EXCEPT ![t] = IF r.ok THEN @
                                      ELSE [at |-> "lock", pool |-> p, len |-> 0]]
    /\ UNCHANGED <<ealClones, ealState, cleanupCalls, garbages, refcnt, buffer, txVars,
                   setupVars, pktVars, statVars, newVars, downVars, launch, loop>>

\* `self.eal.shared.lock().unwrap()`: waits for the mutex; a poisoned mutex
\* makes unwrap panic inside the destructor and the request is dropped.
GcLock(t) ==
    /\ gc[t].at = "lock"
    /\ MutexFree(lock)
    /\ IF poisoned
       THEN /\ gc' = [gc EXCEPT ![t].at = "dead"]
            /\ lock' = lock
       ELSE /\ gc' = [gc EXCEPT ![t].at = "push"]
            /\ lock' = t
    /\ UNCHANGED <<lifeVars, txVars, setup_initialized, poisoned, pc, args, cur, calls,
                   ret, hw, hist, topo, pktVars, statVars, newVars, downVars, launch,
                   loop>>

\* garbages.push, first half: the Vec's length is read.
GcPushRead(t) ==
    /\ gc[t].at = "push"
    /\ gc' = [gc EXCEPT ![t].at = "write", ![t].len = Len(garbages)]
    /\ UNCHANGED <<baseVars, launch, loop>>

\* garbages.push, second half: the request is stored behind that length.
GcPushWrite(t) ==
    /\ gc[t].at = "write"
    /\ garbages' = VecWrite(garbages, gc[t].len, gc[t].pool)
    /\ gc' = [gc EXCEPT ![t].at = "unlock"]
    /\ UNCHANGED <<ealClones, ealState, cleanupCalls, arena, mpoolClones, refcnt, buffer,
                   everDeferred, txVars, setupVars, pktVars, statVars, newVars,
                   downVars, launch, loop>>

\* End of the statement: the MutexGuard is dropped, then the MPoolInner's
\* reference to the Eal, which the caller's Eal outlives.
GcUnlock(t) ==
    /\ gc[t].at = "unlock"
    /\ lock' = IF lock = t THEN 0 ELSE lock
    /\ gc' = [gc EXCEPT ![t] = [at |-> "idle", pool |-> 0, len |-> 0]]
    /\ UNCHANGED <<lifeVars, txVars, setup_initialized, poisoned, pc, args, cur, calls,
                   ret, hw, hist, topo, pktVars, statVars, newVars, downVars, launch,
                   loop>>

\* One Packet per pool is held by the caller.
OnePacketPerPool == [i \in 1..Min({NumPools, BufCap}) |-> Min(MbufsOf(i))]

\* State in which every pool exists with one handle and one outstanding
\* Packet, and the threads are about to drop the pools.
InitGc ==
    /\ ealClones = 1
    /\ ealState = "alive"
    /\ cleanupCalls = 0
    /\ garbages = <<>>
    /\ arena = [p \in Pools |-> "created"]
    /\ mpoolClones = [p \in Pools |-> 1]
    /\ buffer = OnePacketPerPool
    /\ refcnt = [m \in Mbufs |-> IF m \in Range(OnePacketPerPool) THEN 1 ELSE 0]
    /\ everDeferred = {}
    /\ nicHeld = <<>>
    /\ lastOp = NoRecord
    /\ InitSetupIdle
    /\ InitPacketIdle
    /\ InitEalNewDone
    /\ InitStatIdle
    /\ InitDownIdle
    /\ InitExtIdle

NextGc ==
    \/ \E t \in Threads, p \in Pools : GcDrop(t, p)
    \/ \E t \in Threads : GcLock(t)
    \/ \E t \in Threads : GcPushRead(t)
    \/ \E t \in Threads : GcPushWrite(t)
    \/ \E t \in Threads : GcUnlock(t)
    \/ \E i \in 1..BufCap : PacketDrop(i)

SpecGc == InitGc /\ [][NextGc]_vars

\* Pools whose drop is still on its way to the garbage list.
GcInFlight == {gc[t].pool : t \in {u \in Threads : gc[u].at \in {"lock", "push", "write"}}}

\* C36: pools dropped concurrently while their Packets are outstanding each
\* end up with exactly one request in the garbage list, none lost and none
\* duplicated, whatever the interleaving; the list is touched only by a
\* thread that holds the shared mutex, and no drop panics.
C36_OneRequestPerDeferredPool ==
    /\ \A t \in Threads :
          /\ gc[t].at \in {"push", "write", "unlock"} => lock = t
          /\ gc[t].at # "dead"
    /\ \A p \in Pools :
          Count(p, garbages) = IF p \in everDeferred \ GcInFlight THEN 1 ELSE 0

\* C36 witness: every pool was dropped with its Packet outstanding, every
\* drop has finished, and the requests are in the list in an order other
\* than that of the pools.
C36_Witness ==
    /\ everDeferred = Pools
    /\ Len(garbages) = NumPools
    /\ \A t \in Threads : gc[t].at = "idle"
    /\ garbages[1] > garbages[NumPools]

\* ------------------------------------------------- lifecycle properties
\* Mbufs of pool p for which the caller holds a Packet value.
PacketsOf(p) == {m \in MbufsOf(p) : m \in Range(buffer)}

\* The state in which every Packet, every MPool and every Eal value is gone.
AllDropped ==
    /\ ealClones = 0
    /\ \A p \in Pools : mpoolClones[p] = 0
    /\ buffer = <<>>

\* C1: a pool's native arena is never in the released state (rte_mempool_free
\* was called on it) while a Packet issued from that pool is still undropped.
C1_NoReleaseWhilePacketAlive ==
    \A p \in Pools : arena[p] = "freed" => PacketsOf(p) = {}

\* C1 witness: a pool had its release deferred because a Packet issued from
\* it was alive at the last MPool drop, and was released afterwards.
C1_Witness ==
    \E p \in Pools : arena[p] = "freed" /\ p \in everDeferred

\* C7 (as claimed): the assertion of EalInner::drop on a deferred request
\* never fails, whatever the order of pool, Packet and Eal drops.
C7_TeardownAssertNeverFails == ealState # "gc_assert_failed"

\* C8 (as claimed): once every Packet, the last MPool handle and the last Eal
\* have been dropped, every pool created through the Eal has been released
\* and the garbage list is empty.
C8_ReleasedOnceAllDropped ==
    AllDropped => /\ \A p \in Pools : arena[p] # "created"
                  /\ garbages = <<>>

\* C9 (as claimed): a deferred pool whose Packets have all been dropped can
\* be released while the Eal is still alive.
C9_RetriedWhileAlive ==
    \A p \in Pools :
        (p \in Range(garbages) /\ MempoolFull(p, refcnt) /\ ealState = "alive")
            => ENABLED (NextLife /\ arena'[p] = "freed" /\ ealState' = "alive")

\* C9 (amended): a pool whose release was deferred stays unreleased and in
\* the garbage list for as long as the Eal is alive; only EalInner::drop
\* releases it.
C9_DeferredReleasedOnlyAtTeardown ==
    \A p \in everDeferred :
        ealState = "alive" => arena[p] = "created" /\ p \in Range(garbages)

\* C35: each pool's arena is freed at most once: try_collect is never called
\* on a request whose arena it already freed.  A request is in the garbage
\* list only while its arena exists, at most once, and only for a pool whose
\* drop could not free it.
C35_ArenaFreedAtMostOnce ==
    /\ \A p \in Pools : arena[p] # "freed_twice"
    /\ \A i \in 1..Len(garbages) :
          /\ arena[garbages[i]] = "created"
          /\ garbages[i] \in everDeferred
          /\ \A j \in 1..Len(garbages) : garbages[i] = garbages[j] => i = j

\* C35 witness: after the teardown one pool had been freed by its own drop
\* and another from the garbage list.
C35_Witness ==
    /\ ealState = "cleaned"
    /\ \E p, q \in Pools :
          /\ arena[p] = "freed" /\ p \notin everDeferred
          /\ arena[q] = "freed" /\ q \in everDeferred

\* C9 witness: a deferred pool was released by a teardown that completed.
C9_Witness ==
    \E p \in everDeferred : arena[p] = "freed" /\ ealState = "cleaned"

\* ============================================================ TxQ::tx
\* `current as u16`: the packet count handed to rte_eth_tx_burst.
AsU16(n) == n % U16Mod

\* Counts rte_eth_tx_burst may report for nb_pkts offered packets: it accepts
\* a prefix, no longer than the free descriptors of the transmit ring.
TxBurstCounts(nb_pkts) ==
    {c \in 0..nb_pkts : c <= TxRingSize - Len(nicHeld)}

\* A variant of TxRemaining that resets the buffer length to zero.
TxRemainingZero(current, cnt) == 0

\* tx: `let remaining = current - cnt`.
TxRemaining(current, cnt) == current - cnt

\* A variant of TxCopyTail that shortens the buffer without moving its tail.
TxKeepHead(buf, cnt, remaining) == SubSeq(buf, 1, remaining)

\* tx: ptr::copy(pkt_buffer.add(cnt), pkt_buffer, remaining) followed by
\* buffer.set_len(remaining).
TxCopyTail(buf, cnt, remaining) == [i \in 1..remaining |-> buf[cnt + i]]

\* TxQ::tx.
Tx ==
    /\ LET current == Len(buffer)
       IN  \E cnt \in TxBurstCounts(AsU16(current)) :
             LET remaining == TxRemaining(current, cnt)
             IN  /\ nicHeld' = nicHeld \o SubSeq(buffer, 1, cnt)
                 /\ buffer' = TxCopyTail(buffer, cnt, remaining)
                 /\ lastOp' = [op |-> "tx", pre |-> buffer, rc |-> refcnt,
                               cnt |-> cnt, freed |-> <<>>]
    /\ UNCHANGED <<ealClones, ealState, cleanupCalls, garbages, arena,
                   mpoolClones, refcnt, everDeferred, setupVars, objVars>>

\* A variant of TxClonedRefs that takes no extra reference.
TxClonedNoRefs(buf, rc) == rc

\* tx_cloned: the loop calling rte_pktmbuf_refcnt_update(pkt, 1).
TxClonedRefs(buf, rc) == RefcntUpdateAll(buf, rc)

\* A variant of TxClonedUnsent that frees none of the unsent packets.
TxClonedUnsentNone(buf, cnt) == <<>>

\* tx_cloned: the packets of `for i in cnt as usize..current`.
TxClonedUnsent(buf, cnt) == SubSeq(buf, cnt + 1, Len(buf))

\* TxQ::tx_cloned.
TxCloned ==
    /\ LET current == Len(buffer)
       IN  \E cnt \in TxBurstCounts(AsU16(current)) :
             LET unsent == TxClonedUnsent(buffer, cnt)
             IN  /\ nicHeld' = nicHeld \o SubSeq(buffer, 1, cnt)
                 /\ refcnt' = PktmbufFreeAll(unsent, TxClonedRefs(buffer, refcnt))
                 /\ lastOp' = [op |-> "tx_cloned", pre |-> buffer, rc |-> refcnt,
                               cnt |-> cnt, freed |-> unsent]
    /\ UNCHANGED <<ealClones, ealState, cleanupCalls, garbages, arena,
                   mpoolClones, buffer, everDeferred, setupVars, objVars>>

\* The NIC finishes transmitting its oldest accepted mbuf and frees it.
NicComplete ==
    /\ nicHeld # <<>>
    /\ nicHeld' = Tail(nicHeld)
    /\ refcnt' = PktmbufFreeAll(<<Head(nicHeld)>>, refcnt)
    /\ lastOp' = [op |-> "nic_complete", m |-> Head(nicHeld)]
    /\ UNCHANGED <<ealClones, ealState, cleanupCalls, garbages, arena,
                   mpoolClones, buffer, everDeferred, setupVars, objVars>>

\* State in which a thread holds its pool, an RxQ filled from that pool and a
\* TxQ: after Eal::new and one pool created, nothing allocated yet.
InitTx ==
    /\ ealClones = 1
    /\ ealState = "alive"
    /\ cleanupCalls = 0
    /\ garbages = <<>>
    /\ arena = [p \in Pools |-> IF p = 1 THEN "created" ELSE "none"]
    /\ mpoolClones = [p \in Pools |-> IF p = 1 THEN 1 ELSE 0]
    /\ refcnt = [m \in Mbufs |-> 0]
    /\ buffer = <<>>
    /\ everDeferred = {}
    /\ nicHeld = <<>>
    /\ lastOp = NoOp
    /\ InitSetupIdle
    /\ InitPacketIdle
    /\ InitEalNewDone
    /\ InitExtIdle
    /\ InitDownIdle
    /\ InitStatIdle

NextTx ==
    \/ \E p \in Pools : Alloc(p)
    \/ \E p \in Pools : AllocBulk(p)
    \/ \E p \in Pools : Rx(p)
    \/ \E i \in 1..BufCap : PacketDrop(i)
    \/ Tx
    \/ TxCloned
    \/ NicComplete

SpecTx == InitTx /\ [][NextTx]_vars

\* ------------------------------------------- dpdk_test: the thread's steps
\* What rte_eth_tx_burst reports for nb_pkts offered packets on a ring with
\* `free` free descriptors: it stores packets until the ring is filled up, and
\* reports fewer than nb_pkts only then.
TxBurstFilled(nb_pkts, free) == Min({nb_pkts, free})

\* A variant of RxLen that restarts the buffer at each call.
RxLenOverwrite(current, cnt) == cnt

\* rx: buffer.set_len(current + cnt).
RxLen(current, cnt) == current + cnt

\* sender: `while !tx_port.is_link_up() { eal.pause(); }`.
SenderLinkUp ==
    /\ loop.at = "tx_link"
    /\ loop.tx_up
    /\ loop' = [loop EXCEPT !.at = "alloc"]
    /\ UNCHANGED <<baseVars, launch, gc>>

\* sender: alloc_bulk fills the empty ArrayVec of capacity DEFAULT_TX_BURST
\* from the fresh pool of DEFAULT_RX_POOL_SIZE mbufs; each packet gets its
\* private data, its 42 bytes and set_len(42).
SenderAlloc ==
    /\ loop.at = "alloc"
    /\ loop' = [loop EXCEPT !.at = "tx", !.pkts = DEFAULT_TX_BURST]
    /\ UNCHANGED <<baseVars, launch, gc>>

\* sender: the one call tx_queue.tx(&mut pkts), on the ring of
\* DEFAULT_RX_DESC descriptors that setup gave the TX queue.
SenderTx ==
    /\ loop.at = "tx"
    /\ LET current == loop.pkts
           cnt == TxBurstFilled(AsU16(current), DEFAULT_RX_DESC - loop.tx_ring)
       IN  loop' = [loop EXCEPT !.at = "tx_stat",
                                !.pkts = TxRemaining(current, cnt),
                                !.accepted = cnt,
                                !.tx_ring = @ + cnt]
    /\ UNCHANGED <<baseVars, launch, gc>>

\* sender: `while opackets > DEFAULT_TX_BURST { eal.pause(); }`, then the
\* return, which drops the packets left in pkts; receiver is called next.
SenderReturn ==
    /\ loop.at = "tx_stat"
    /\ ~(loop.opackets > DEFAULT_TX_BURST)
    /\ loop' = [loop EXCEPT !.at = "rx_link", !.pkts = 0]
    /\ UNCHANGED <<baseVars, launch, gc>>

\* receiver: `while !rx_port.is_link_up() { eal.pause(); }`.
ReceiverLinkUp ==
    /\ loop.at = "rx_link"
    /\ loop.rx_up
    /\ loop' = [loop EXCEPT !.at = "rx"]
    /\ UNCHANGED <<baseVars, launch, gc>>

\* receiver: one round of the loop: rx into the buffer of capacity
\* DEFAULT_TX_BURST * 2, which takes what the RX ring holds up to the count
\* asked for; break when pkts.len() >= DEFAULT_TX_BURST, else pause.
ReceiverRx ==
    /\ loop.at = "rx"
    /\ LET current == loop.got
           remaining == DEFAULT_TX_BURST * 2 - current
           cnt == Min({RxAsked(remaining), loop.rx_ring})
           len == RxLen(current, cnt)
       IN  loop' = [loop EXCEPT !.got = len,
                                !.rx_ring = @ - cnt,
                                !.at = IF len >= DEFAULT_TX_BURST THEN "done" ELSE "rx"]
    /\ UNCHANGED <<baseVars, launch, gc>>

\* The link of the sending port comes up.
TxLinkUp ==
    /\ ~loop.tx_up
    /\ loop' = [loop EXCEPT !.tx_up = TRUE]
    /\ UNCHANGED <<baseVars, launch, gc>>

\* The link of the receiving port comes up.
RxLinkUp ==
    /\ ~loop.rx_up
    /\ loop' = [loop EXCEPT !.rx_up = TRUE]
    /\ UNCHANGED <<baseVars, launch, gc>>

\* The sending port transmits the oldest packet of its TX ring; the cable
\* carries it to the receiving port, which stores it in its RX ring.
Wire ==
    /\ loop.tx_ring > 0
    /\ loop' = [loop EXCEPT !.tx_ring = @ - 1, !.opackets = @ + 1, !.rx_ring = @ + 1]
    /\ UNCHANGED <<baseVars, launch, gc>>

\* A packet from elsewhere arrives at the receiving port.
BackgroundPacket ==
    /\ loop.background < MaxTraffic
    /\ loop.rx_up
    /\ loop.at # "done"
    /\ loop' = [loop EXCEPT !.background = @ + 1, !.rx_ring = @ + 1]
    /\ UNCHANGED <<baseVars, launch, gc>>

\* The steps of the thread launched on core 0.
LoopThread ==
    \/ SenderLinkUp
    \/ SenderAlloc
    \/ SenderTx
    \/ SenderReturn
    \/ ReceiverLinkUp
    \/ ReceiverRx

NextLoop ==
    \/ LoopThread
    \/ TxLinkUp
    \/ RxLinkUp
    \/ Wire
    \/ BackgroundPacket

C10_TxClonedKeepsBuffer ==
    /\ lastOp.op = "tx_cloned" => buffer = lastOp.pre
    /\ \A m \in Range(buffer) : refcnt[m] >= 1

\* C10 witness: the NIC has just freed an mbuf it accepted from tx_cloned
\* while the caller's buffer still holds that packet.
C10_Witness ==
    /\ lastOp.op = "nic_complete"
    /\ lastOp.m \in Range(buffer)
    /\ nicHeld = <<>>

\* C11: tx_cloned leaks no reference.  Right after the call every mbuf's
\* reference count is its value before the call plus one per reference the
\* NIC took from this call (unsent packets: +1 then -1), and at all times
\* every reference is held by a Packet of the caller or by the NIC, so once
\* the NIC has dropped what it accepted the count is back to its old value.
C11_TxClonedLeaksNoReference ==
    /\ lastOp.op = "tx_cloned" =>
          \A m \in Mbufs :
              refcnt[m] = lastOp.rc[m]
                          + Count(m, SubSeq(lastOp.pre, 1, lastOp.cnt))
    /\ \A m \in Mbufs : refcnt[m] = Count(m, buffer) + Count(m, nicHeld)

\* C11 witness: tx_cloned had one of two packets accepted and freed its
\* extra reference on the other.
C11_Witness ==
    /\ lastOp.op = "tx_cloned"
    /\ lastOp.cnt = 1
    /\ Len(lastOp.pre) = 2
    /\ lastOp.freed = <<lastOp.pre[2]>>
    /\ refcnt[lastOp.pre[2]] = 1

\* C12: rx on a buffer of length L and capacity C asks the primitive for at
\* most C - L packets, leaves the first L entries as they were and ends with
\* length L + cnt <= C, cnt being the count the primitive reported; with
\* cnt = 0 the buffer is unchanged.
C12_RxAppendsReceived ==
    lastOp.op = "rx" =>
        /\ lastOp.asked <= BufCap - Len(lastOp.pre)
        /\ lastOp.cnt <= lastOp.asked
        /\ Len(buffer) = Len(lastOp.pre) + lastOp.cnt
        /\ Len(buffer) <= BufCap
        /\ SubSeq(buffer, 1, Len(lastOp.pre)) = lastOp.pre
        /\ lastOp.cnt = 0 => buffer = lastOp.pre /\ refcnt = lastOp.rc

\* C12 witness: rx appended one received packet behind one held packet.
C12_Witness ==
    /\ lastOp.op = "rx"
    /\ Len(lastOp.pre) = 1
    /\ lastOp.cnt = 1
    /\ buffer[1] = lastOp.pre[1]

\* C13: alloc_bulk is all-or-nothing.  Returning true, the buffer is filled
\* to its capacity, its old entries unchanged, the new ones distinct mbufs
\* of the pool that were free; returning false, the buffer is unchanged and
\* no mbuf was drawn from the pool.
C13_AllocBulkAllOrNothing ==
    lastOp.op = "alloc_bulk" =>
        IF lastOp.ok
        THEN /\ Len(buffer) = BufCap
             /\ SubSeq(buffer, 1, Len(lastOp.pre)) = lastOp.pre
             /\ \A i \in (Len(lastOp.pre) + 1)..Len(buffer) :
                   /\ PoolOf(buffer[i]) = lastOp.pool
                   /\ lastOp.rc[buffer[i]] = 0
                   /\ refcnt[buffer[i]] = 1
                   /\ Count(buffer[i], buffer) = 1
             /\ \A m \in Mbufs \ Range(buffer) : refcnt[m] = lastOp.rc[m]
        ELSE /\ buffer = lastOp.pre
             /\ refcnt = lastOp.rc

\* C13 witness: alloc_bulk failed on a pool that had a free mbuf, but fewer
\* than the buffer's remaining capacity.
C13_Witness ==
    /\ lastOp.op = "alloc_bulk"
    /\ ~lastOp.ok
    /\ FreeMbufs(lastOp.pool, lastOp.rc) # {}

\* C14: alloc returns None, changing nothing, exactly when the pool has no
\* free mbuf; otherwise it returns one Packet and the pool's free count goes
\* down by one.  The outstanding Packets of a pool are distinct mbufs, so
\* they never outnumber the pool's size.
C14_AllocNoneIffPoolEmpty ==
    /\ lastOp.op = "alloc" =>
          /\ lastOp.got = 0 <=> FreeMbufs(lastOp.pool, lastOp.rc) = {}
          /\ lastOp.got = 0 => buffer = lastOp.pre /\ refcnt = lastOp.rc
          /\ lastOp.got # 0 =>
                /\ buffer = Append(lastOp.pre, lastOp.got)
                /\ PoolOf(lastOp.got) = lastOp.pool
                /\ Cardinality(FreeMbufs(lastOp.pool, refcnt))
                      = Cardinality(FreeMbufs(lastOp.pool, lastOp.rc)) - 1
    /\ \A m \in Mbufs : Count(m, buffer) <= 1
    /\ \A p \in Pools :
          Cardinality({i \in 1..Len(buffer) : PoolOf(buffer[i]) = p}) <= PoolSize

\* C14 witness: alloc returned None because every mbuf of the pool was out.
C14_Witness ==
    /\ lastOp.op = "alloc"
    /\ lastOp.got = 0
    /\ \A m \in MbufsOf(lastOp.pool) : refcnt[m] >= 1

\* ============================================================== SpecPkt
\* A caller holds one Packet of a created pool: alloc'ed, or received with
\* n bytes of data.
InitPkt ==
    /\ ealClones = 1
    /\ ealState = "alive"
    /\ cleanupCalls = 0
    /\ garbages = <<>>
    /\ arena = [p \in Pools |-> IF p = 1 THEN "created" ELSE "none"]
    /\ mpoolClones = [p \in Pools |-> IF p = 1 THEN 1 ELSE 0]
    /\ refcnt = [m \in Mbufs |-> IF m = 1 THEN 1 ELSE 0]
    /\ buffer = <<1>>
    /\ everDeferred = {}
    /\ nicHeld = <<>>
    /\ lastOp = NoRecord
    /\ InitSetupIdle
    /\ \E n \in 0..(PktBufLen - NewMbuf(0).data_off) : mbuf = NewMbuf(n)
    /\ pktOp = NoPktOp
    /\ InitStatIdle
    /\ InitEalNewDone
    /\ InitExtIdle
    /\ InitDownIdle

SpecPkt == InitPkt /\ [][NextPkt]_vars

\* C15 (as claimed): set_len(n) with n <= capacity() makes len() return n;
\* with n > capacity(), n any usize, it is a fatal assertion and the mbuf
\* is not modified.
C15_SetLenChecked ==
    pktOp.op = "set_len" =>
        IF pktOp.size <= PacketCapacity(pktOp.pre)
        THEN ~pktOp.panic /\ PacketLen(mbuf) = pktOp.size
        ELSE pktOp.panic /\ mbuf = pktOp.pre

\* C15, the failing case: set_len returned for a size above the capacity
\* and changed the length.
C15_Witness ==
    /\ pktOp.op = "set_len"
    /\ pktOp.size > PacketCapacity(pktOp.pre)
    /\ ~pktOp.panic
    /\ PacketLen(mbuf) # PacketLen(pktOp.pre)

\* C16 (as claimed): the data region [data_off, data_off + data_len) lies
\* within the buf_len bytes of the mbuf's buffer, and the slices returned
\* by buffer/buffer_mut and data/data_mut end within them.
C16_ViewsWithinBuffer ==
    /\ mbuf.data_off + mbuf.data_len <= mbuf.buf_len
    /\ BufferView(mbuf).start + BufferView(mbuf).len <= mbuf.buf_len
    /\ ~DataView(mbuf).panic =>
          DataView(mbuf).start + DataView(mbuf).len <= mbuf.buf_len

\* C16, the failing case: after a set_len that did not panic, the data
\* region and the slice of data() end behind the mbuf's buffer.
C16_Witness ==
    /\ pktOp.op = "set_len" /\ ~pktOp.panic
    /\ ~DataView(mbuf).panic
    /\ DataView(mbuf).start + DataView(mbuf).len > mbuf.buf_len

\* ============================================================ SpecSetup
\* After Eal::new: every thread holds a clone of the Eal; no pool, no call.
InitSetup ==
    /\ ealClones = NumThreads
    /\ ealState = "alive"
    /\ cleanupCalls = 0
    /\ garbages = <<>>
    /\ arena = [p \in Pools |-> "none"]
    /\ mpoolClones = [p \in Pools |-> 0]
    /\ refcnt = [m \in Mbufs |-> 0]
    /\ buffer = <<>>
    /\ everDeferred = {}
    /\ nicHeld = <<>>
    /\ lastOp = NoOp
    /\ InitSetupIdle
    /\ InitPacketIdle
    /\ InitEalNewDone
    /\ InitExtIdle
    /\ InitDownIdle
    /\ InitStatIdle

NextSetup == \E t \in Threads : ThreadStep(t)

SpecSetup == InitSetup /\ [][NextSetup]_vars

\* ---------------------------------------------------------------------
\* SpecTopo: one caller runs setup on a machine whose enabled lcores and
\* NUMA nodes of lcores and ports are drawn from Topologies.
\* ---------------------------------------------------------------------
InitTopo ==
    /\ ealClones = NumThreads
    /\ ealState = "alive"
    /\ cleanupCalls = 0
    /\ garbages = <<>>
    /\ arena = [p \in Pools |-> "none"]
    /\ mpoolClones = [p \in Pools |-> 0]
    /\ refcnt = [m \in Mbufs |-> 0]
    /\ buffer = <<>>
    /\ everDeferred = {}
    /\ nicHeld = <<>>
    /\ lastOp = NoOp
    /\ InitSetupState
    /\ topo \in Topologies
    /\ InitPacketIdle
    /\ InitEalNewDone
    /\ InitExtIdle
    /\ InitDownIdle
    /\ InitStatIdle

NextTopo == ThreadStep(1)

SpecTopo == InitTopo /\ [][NextTopo]_vars

\* C17: when setup is called with the Numa policy for a direction, every
\* queue of that direction placed in a core's list belongs to a port whose
\* NUMA node equals that core's NUMA node, for every topology of cores,
\* sockets and ports: in the map under construction and in the returned
\* list.
C17_NumaQueuesOnSameNode ==
    \A t \in Threads :
        /\ \A l \in Lcores :
              /\ args[t][1] = "Numa" =>
                    \A i \in 1..Len(cur[t].lmap[l].rx) :
                        PortSocket(cur[t].lmap[l].rx[i]) = LcoreSocket(l)
              /\ args[t][2] = "Numa" =>
                    \A i \in 1..Len(cur[t].lmap[l].tx) :
                        PortSocket(cur[t].lmap[l].tx[i]) = LcoreSocket(l)
        /\ ret[t].tag = "Ok" =>
              \A k \in 1..Len(ret[t].list) :
                  LET e == ret[t].list[k]
                  IN  /\ args[t][1] = "Numa" =>
                            \A i \in 1..Len(e.rx) :
                                PortSocket(e.rx[i]) = LcoreSocket(e.lcore)
                      /\ args[t][2] = "Numa" =>
                            \A i \in 1..Len(e.tx) :
                                PortSocket(e.tx[i]) = LcoreSocket(e.lcore)

\* A Numa/Numa call returned Ok on a machine whose enabled lcores sit on
\* more than one node, with a queue in the list of some lcore.
C17_Witness ==
    \E t \in Threads :
        /\ ret[t].tag = "Ok"
        /\ args[t] = <<"Numa", "Numa">>
        /\ \E k \in 1..Len(ret[t].list) :
              /\ ret[t].list[k].rx # <<>>
              /\ ret[t].list[k].tx # <<>>
              /\ \E l \in topo.enabled :
                    topo.lsock[l] # topo.lsock[ret[t].list[k].lcore]

\* C18: for both affinity policies, every core id in the list returned by
\* setup is one the machine reports enabled, and each core id appears at
\* most once in the returned list.
C18_ReturnedCoresEnabledAndUnique ==
    \A t \in Threads :
        ret[t].tag = "Ok" =>
            /\ \A k \in 1..Len(ret[t].list) :
                  ret[t].list[k].lcore \in topo.enabled
            /\ \A j, k \in 1..Len(ret[t].list) :
                  j # k => ret[t].list[j].lcore # ret[t].list[k].lcore

\* setup returned Ok on a machine with a disabled lcore, and some lcore's
\* entry was pushed to for several ports and both directions.
C18_Witness ==
    \E t \in Threads :
        /\ ret[t].tag = "Ok"
        /\ topo.enabled # Lcores
        /\ \E k \in 1..Len(ret[t].list) :
              /\ Len(ret[t].list[k].rx) >= 2
              /\ Len(ret[t].list[k].tx) >= 2

\* C19: if, under the Numa policy, a port's NUMA node has no enabled core
\* (or the port's NUMA node is unknown), setup does not panic on that port:
\* it creates no queue of that direction for it and goes on to return Ok.
C19_NumaEmptyNodeSucceeds ==
    \A t \in Threads :
        ( /\ hist.panic.by = t
          /\ "Numa" \in {args[t][1], args[t][2]}
          /\ \/ topo.psock[hist.panic.port] = UnknownSocket
             \/ \A l \in topo.enabled : topo.lsock[l] # topo.psock[hist.panic.port] )
        => hist.panic.site \notin {"socket_id", "socket_to_lcore_map"}

\* A Numa call panicked at socket_to_lcore_map.get(&socket_id).unwrap() on
\* a port whose node is known.
C19_Witness ==
    \E t \in Threads :
        /\ pc[t] = "dead"
        /\ hist.panic.by = t
        /\ hist.panic.site = "socket_to_lcore_map"
        /\ topo.psock[hist.panic.port] # UnknownSocket

\* C20: if rte_eth_stats_reset reports -ENOTSUP for a port during setup,
\* setup does not fail: it sets has_stats_reset = false for the port and
\* continues, however many RX/TX queues were already created for the port.
C20_StatsResetUnsupportedContinues ==
    hist.panic.site # "stats_reset"

\* setup panicked at Arc::get_mut(&mut port.inner).unwrap() on a port for
\* which it had created RX and TX queues.
C20_Witness ==
    \E t \in Threads :
        /\ pc[t] = "dead"
        /\ hist.panic.by = t
        /\ hist.panic.site = "stats_reset"
        /\ hist.panic.queues >= 2

\* C24: for each port and each direction, the queue indices handed out by
\* setup are exactly 0..k-1 where k is the number of lcores selected for the
\* port and direction: the N-th lcore of the iteration gets index N (from
\* 0), no index is used twice on a port, and k is the queue count the port
\* was configured with.
C24_QueueIndicesDense ==
    \A t \in Threads :
        LET p == cur[t].port
            served == cur[t].served
            Dense(ids, k) == ids = 0..(k - 1)
            Done(q) ==
                /\ Dense(hw.port[q].rxq, hw.port[q].nb_rx)
                /\ Dense(hw.port[q].txq, hw.port[q].nb_tx)
                /\ hw.port[q].nb_rx =
                      Cardinality(SelectLcores(args[t][1], PortSocket(q)))
                /\ hw.port[q].nb_tx =
                      Cardinality(SelectLcores(args[t][2], PortSocket(q)))
        IN  /\ pc[t] \in {"rxq", "txq"} =>
                /\ \A n \in 1..Len(served) : served[n].queue_id = n - 1
                /\ \A i, j \in 1..Len(served) :
                      i # j => /\ served[i].queue_id # served[j].queue_id
                               /\ served[i].lcore # served[j].lcore
            /\ pc[t] = "rxq" =>
                /\ Dense(hw.port[p].rxq, Len(served))
                /\ Len(served) <= hw.port[p].nb_rx
                /\ RxLcoresLeft(t) = {} => Len(served) = hw.port[p].nb_rx
            /\ pc[t] = "txq" =>
                /\ Dense(hw.port[p].rxq, hw.port[p].nb_rx)
                /\ Dense(hw.port[p].txq, Len(served))
                /\ Len(served) <= hw.port[p].nb_tx
                /\ TxLcoresLeft(t) = {} => Len(served) = hw.port[p].nb_tx
            /\ pc[t] \in {"configure", "validate", "rxq", "txq", "start", "finish"} =>
                \A q \in Ports :
                    (q < p \/ (q = p /\ pc[t] \in {"start", "finish"})) => Done(q)

\* The TX loop of a port has given indices to two lcores, after the RX loop
\* gave indices to two.
C24_Witness ==
    \E t \in Threads :
        /\ pc[t] = "txq"
        /\ Len(cur[t].served) >= 2
        /\ TxLcoresLeft(t) = {}
        /\ hw.port[cur[t].port].nb_rx >= 2
        /\ cur[t].port > 1

\* C25: under the Full policy for a direction, every enabled lcore receives
\* exactly one queue of that direction from every valid port, and the queues
\* in an lcore's list are in ascending port-id order (the i-th entry belongs
\* to the i-th valid port): in the map while the ports are processed, and in
\* the returned list, which has exactly one entry per enabled lcore.
C25_FullOneQueuePerPortAscending ==
    \A t \in Threads :
        LET AllPorts == [i \in 1..NumPorts |-> i]
            UpTo(n) == [i \in 1..n |-> i]
        IN  /\ pc[t] = "configure" =>
                \A l \in topo.enabled :
                    /\ args[t][1] = "Full" => cur[t].lmap[l].rx = UpTo(cur[t].port - 1)
                    /\ args[t][2] = "Full" => cur[t].lmap[l].tx = UpTo(cur[t].port - 1)
            /\ (ret[t].tag = "Ok" /\ "Full" \in {args[t][1], args[t][2]}) =>
                /\ {ret[t].list[k].lcore : k \in 1..Len(ret[t].list)} = topo.enabled
                /\ Len(ret[t].list) = Cardinality(topo.enabled)
                /\ \A k \in 1..Len(ret[t].list) :
                      /\ args[t][1] = "Full" => ret[t].list[k].rx = AllPorts
                      /\ args[t][2] = "Full" => ret[t].list[k].tx = AllPorts

\* A Full/Full call returned Ok on a machine whose enabled lcores sit on
\* more than one node, with several ports in every lcore's lists.
C25_Witness ==
    \E t \in Threads :
        /\ ret[t].tag = "Ok"
        /\ args[t] = <<"Full", "Full">>
        /\ Len(ret[t].list) >= 2
        /\ \E l1, l2 \in topo.enabled : topo.lsock[l1] # topo.lsock[l2]
        /\ \A k \in 1..Len(ret[t].list) :
              Len(ret[t].list[k].rx) >= 2 /\ Len(ret[t].list[k].tx) >= 2

\* C26: every RX queue created by setup owns a pool dedicated to it: each
\* RX queue of a port has exactly one pool, no pool belongs to two RX
\* queues, the pool names are pairwise distinct over all (port, queue index)
\* pairs (so create_mpool never fails on a name in use), and the TX loop
\* creates no pool.
C26_RxQueuePoolsDedicated ==
    /\ hist.panic.site # "create_mpool"
    /\ \A p \in Ports :
          /\ {m.queue_id : m \in hw.port[p].rx_mpool} = hw.port[p].rxq
          /\ Cardinality(hw.port[p].rx_mpool) = Cardinality(hw.port[p].rxq)
    /\ \A p, q \in Ports :
          \A m \in hw.port[p].rx_mpool, n \in hw.port[q].rx_mpool :
              (p # q \/ m.queue_id # n.queue_id) => m.name # n.name
    /\ Cardinality(MPoolNames(hw)) =
          Cardinality({<<p, i>> \in Ports \X (0..NumLcores) : i \in hw.port[p].rxq})

\* Two ports have two RX queues each, and TX queues as well.
C26_Witness ==
    \E p, q \in Ports :
        /\ p # q
        /\ Cardinality(hw.port[p].rxq) >= 2 /\ Cardinality(hw.port[q].rxq) >= 2
        /\ hw.port[p].txq # {} /\ hw.port[q].txq # {}
        /\ Cardinality(MPoolNames(hw)) >= 4

\* C27: if the number of lcores selected for a port exceeds the port's
\* maximum RX or TX queue count, or a default descriptor ring size is above
\* the port's maximum, below its minimum or not a multiple of its alignment,
\* setup panics at the asserts before that port is configured: the call
\* returns neither an ErrorCode nor a mapping, the port is not configured,
\* and setup_initialized is not set, then or later.
C27_LimitViolationIsFatal ==
    [][ /\ \A t \in Threads :
             LET p == cur[t].port
                 d == cur[t].dev_info
                 rx == Cardinality(SelectLcores(args[t][1], PortSocket(p)))
                 tx == Cardinality(SelectLcores(args[t][2], PortSocket(p)))
                 Violated ==
                     \/ rx > d.max_rx_queues
                     \/ tx > d.max_tx_queues
                     \/ DEFAULT_RX_DESC > d.rx_desc_lim.nb_max
                     \/ DEFAULT_RX_DESC < d.rx_desc_lim.nb_min
                     \/ DEFAULT_RX_DESC % d.rx_desc_lim.nb_align # 0
                     \/ DEFAULT_TX_DESC > d.tx_desc_lim.nb_max
                     \/ DEFAULT_TX_DESC < d.tx_desc_lim.nb_min
                     \/ DEFAULT_TX_DESC % d.tx_desc_lim.nb_align # 0
             IN  (pc[t] = "validate" /\ pc'[t] # "validate" /\ Violated) =>
                     /\ pc'[t] \in {"dead", "stuck"}
                     /\ ret'[t].tag \notin {"Ok", "Err"}
                     /\ hist'.panic.site = "limits"
                     /\ hist'.panic.by = t
                     /\ hist'.panic.port = p
                     /\ ~hw.port[p].configured
                     /\ ~hw'.port[p].configured
                     /\ ~setup_initialized'
        /\ hist'.panic.site = "limits" =>
               /\ ~setup_initialized'
               /\ hist'.ok = 0
               /\ \A t \in Threads : ret'[t].tag # "Ok"
      ]_vars

\* setup panicked at the limit asserts of a port after it had configured
\* and started an earlier port.
C27_Witness ==
    \E t \in Threads :
        /\ pc[t] \in {"dead", "stuck"}
        /\ hist.panic.site = "limits"
        /\ hist.panic.by = t
        /\ hist.panic.port > 1
        /\ ~setup_initialized

\* C29: when the Eal is torn down, rte_eal_cleanup is invoked exactly once,
\* and only after every deferred pool release has been drained from the
\* garbage list and attempted; a "not supported" status is not fatal.
C29_CleanupOnceAfterDrain ==
    ealState # "alive" =>
        /\ cleanupCalls = 1
        /\ garbages = <<>>
        /\ \A p \in everDeferred : arena[p] = "freed"

\* EalInner::drop ended in the assert on try_collect and rte_eal_cleanup was
\* never called.
C29_Witness ==
    /\ ealState = "gc_assert_failed"
    /\ cleanupCalls = 0
    /\ everDeferred # {}

\* ---------------------------------------------------------------------
\* SpecNew: a program calls Eal::new on its argument vector.
\* ---------------------------------------------------------------------
InitNew ==
    /\ ealClones = 0
    /\ ealState = "alive"
    /\ cleanupCalls = 0
    /\ garbages = <<>>
    /\ arena = [p \in Pools |-> "none"]
    /\ mpoolClones = [p \in Pools |-> 0]
    /\ refcnt = [m \in Mbufs |-> 0]
    /\ buffer = <<>>
    /\ everDeferred = {}
    /\ nicHeld = <<>>
    /\ lastOp = NoRecord
    /\ InitSetupIdle
    /\ mbuf = NewMbuf(0)
    /\ pktOp = NoPktOp
    /\ InitStatIdle
    /\ InitDownIdle
    /\ InitExtIdle
    /\ \E v \in ArgVectors :
          ealNew = [at |-> "call", args |-> v, orig |-> v, called |-> FALSE,
                    status |-> 0, ret |-> [tag |-> "none"]]

NextNew == EalNew

SpecNew == InitNew /\ [][NextNew]_vars

\* C28: Eal::new returns Err(ErrorCode) exactly when rte_eal_init returns a
\* negative status, and then args is unchanged and no Eal is returned; when
\* it returns r >= 0, new returns Ok and args is the original args without
\* its first r elements, the rest in the original order.
C28_NewConsumesPrefix ==
    (ealNew.at = "done" /\ ealNew.called) =>
        /\ ealNew.ret.tag = "Err" <=> ealNew.status < 0
        /\ ealNew.status < 0 =>
              /\ ealClones = 0
              /\ ealNew.args = ealNew.orig
        /\ ealNew.status >= 0 =>
              /\ ealNew.ret.tag = "Ok"
              /\ ealClones = 1
              /\ Len(ealNew.args) = Len(ealNew.orig) - ealNew.status
              /\ \A i \in 1..Len(ealNew.args) :
                    ealNew.args[i] = ealNew.orig[i + ealNew.status]

\* rte_eal_init consumed some but not all of several different arguments
\* and Eal::new returned Ok.
C28_Witness ==
    /\ ealNew.at = "done"
    /\ ealNew.ret.tag = "Ok"
    /\ ealNew.status >= 1
    /\ Len(ealNew.args) >= 1
    /\ ealNew.orig[1] # ealNew.orig[Len(ealNew.orig)]

\* ---------------------------------------------------------------------
\* SpecDown: after a successful setup the caller clones and drops the
\* handles of one port and of its queues, in any order, while it keeps the
\* Eal.
\* ---------------------------------------------------------------------
InitDown ==
    /\ ealClones = 1
    /\ ealState = "alive"
    /\ cleanupCalls = 0
    /\ garbages = <<>>
    /\ arena = [p \in Pools |-> "none"]
    /\ mpoolClones = [p \in Pools |-> 0]
    /\ refcnt = [m \in Mbufs |-> 0]
    /\ buffer = <<>>
    /\ everDeferred = {}
    /\ nicHeld = <<>>
    /\ lastOp = NoRecord
    /\ InitSetupIdle
    /\ InitPacketIdle
    /\ InitEalNewDone
    /\ InitExtIdle
    /\ InitStatIdle
    /\ down = NewDown

SpecDown == InitDown /\ [][NextDown]_vars

\* C30: a port is stopped, closed and its ownership released exactly once,
\* when its last handle is dropped, and only after every RxQ and TxQ of the
\* port has been dropped and its hardware queue stop attempted; a queue stop
\* that fails does not keep the teardown from continuing.
C30_PortClosedOnceAfterQueues ==
    LET strong == down.port
                  + Cardinality({q \in QueueIds : down.rxq[q] > 0})
                  + Cardinality({q \in QueueIds : down.txq[q] > 0})
    IN  /\ ~down.panic
        /\ down.unset_calls <= 1 /\ down.stop_calls <= 1 /\ down.close_calls <= 1
        /\ strong > 0 =>
              /\ down.owned /\ down.started
              /\ down.unset_calls = 0 /\ down.stop_calls = 0 /\ down.close_calls = 0
        /\ strong = 0 =>
              /\ ~down.owned /\ ~down.started
              /\ down.unset_calls = 1 /\ down.stop_calls = 1 /\ down.close_calls = 1
        /\ down.close_calls = 1 =>
              \A q \in QueueIds :
                  /\ down.rxq[q] = 0 /\ down.rx_stop[q] # "none"
                  /\ down.txq[q] = 0 /\ down.tx_stop[q] # "none"
        /\ \A q \in QueueIds :
              /\ down.rxq[q] = 0 <=> down.rx_stop[q] # "none"
              /\ down.txq[q] = 0 <=> down.tx_stop[q] # "none"
              /\ down.rxq[q] = 0 <=> down.mpool[q] # "live"

\* The port was closed although an RX and a TX queue stop had failed.
C30_Witness ==
    /\ down.close_calls = 1
    /\ \E q \in QueueIds : down.rx_stop[q] = "failed"
    /\ \E q \in QueueIds : down.tx_stop[q] = "failed"
    /\ \A q \in QueueIds : down.rxq[q] = 0 /\ down.txq[q] = 0

\* ---------------------------------------------------------------------
\* SpecPool: one caller creates, clones and drops pools, allocates and drops
\* Packets and drops the Eal, with the calls recorded in lastOp.
\* ---------------------------------------------------------------------
InitPool ==
    /\ ealClones = 1
    /\ ealState = "alive"
    /\ cleanupCalls = 0
    /\ garbages = <<>>
    /\ arena = [p \in Pools |-> "none"]
    /\ mpoolClones = [p \in Pools |-> 0]
    /\ refcnt = [m \in Mbufs |-> 0]
    /\ buffer = <<>>
    /\ everDeferred = {}
    /\ nicHeld = <<>>
    /\ lastOp = NoOp
    /\ InitSetupIdle
    /\ InitPacketIdle
    /\ InitEalNewDone
    /\ InitExtIdle
    /\ InitDownIdle
    /\ InitStatIdle

NextPool ==
    \/ EalDrop
    \/ \E p \in Pools : CreateMPool(p)
    \/ \E p \in Pools : MPoolClone(p)
    \/ \E p \in Pools : MPoolDrop(p)
    \/ \E p \in Pools : Alloc(p)
    \/ \E i \in 1..BufCap : PacketDrop(i)

SpecPool == InitPool /\ [][NextPool]_vars

\* C31 (as stated): create_mpool with a name that collides with a pool
\* existing in the process panics, creates no handle and leaves the existing
\* pool and the garbage list unchanged; with a fresh name it returns a pool
\* in which all buffers are free.
C31_CreateMPoolFreshSucceeds ==
    [][ \A p \in Pools :
          ( /\ lastOp' # lastOp
            /\ lastOp'.op = "create_mpool"
            /\ lastOp'.name = p ) =>
              IF arena[p] = "created"
              THEN /\ lastOp'.outcome = "panic"
                   /\ UNCHANGED <<arena, mpoolClones, garbages, refcnt, ealClones>>
              ELSE /\ lastOp'.outcome = "Ok"
                   /\ arena'[p] = "created"
                   /\ mpoolClones'[p] = 1
                   /\ \A m \in MbufsOf(p) : refcnt'[m] = 0
      ]_vars

\* C31 (amended): create_mpool with a name that collides with a pool
\* existing in the process panics, creates no handle and leaves the existing
\* pool and the garbage list unchanged; with a fresh name it either returns
\* a pool in which all buffers are free, changing no other pool, or (when
\* the native layer cannot create the pool) panics in the same way.
C31_CreateMPoolCollisionPanics ==
    [][ \A p \in Pools :
          ( /\ lastOp' # lastOp
            /\ lastOp'.op = "create_mpool"
            /\ lastOp'.name = p ) =>
              /\ arena[p] = "created" => lastOp'.outcome = "panic"
              /\ lastOp'.outcome = "panic" =>
                    UNCHANGED <<arena, mpoolClones, garbages, refcnt, ealClones>>
              /\ lastOp'.outcome = "Ok" =>
                    /\ arena[p] = "none"
                    /\ arena' = [arena EXCEPT ![p] = "created"]
                    /\ mpoolClones' = [mpoolClones EXCEPT ![p] = 1]
                    /\ \A m \in MbufsOf(p) : refcnt'[m] = 0
                    /\ UNCHANGED <<garbages, refcnt, ealClones>>
      ]_vars

\* create_mpool panicked on the name of a pool whose last handle is gone and
\* whose release waits in the garbage list.
C31_Witness ==
    /\ lastOp.op = "create_mpool"
    /\ lastOp.outcome = "panic"
    /\ arena[lastOp.name] = "created"
    /\ mpoolClones[lastOp.name] = 0
    /\ lastOp.name \in Range(garbages)

\* ---------------------------------------------------------------------------
\* SpecLaunch: threads are launched on lcores, pinned, run their closure and
\* are joined.
InitLaunch ==
    /\ ealClones = 1
    /\ ealState = "up"
    /\ cleanupCalls = 0
    /\ garbages = <<>>
    /\ arena = [p \in Pools |-> "none"]
    /\ mpoolClones = [p \in Pools |-> 0]
    /\ refcnt = [m \in Mbufs |-> 0]
    /\ buffer = <<>>
    /\ everDeferred = {}
    /\ nicHeld = <<>>
    /\ lastOp = NoRecord
    /\ InitSetupIdle
    /\ InitPacketIdle
    /\ InitEalNewDone
    /\ InitStatIdle
    /\ InitDownIdle
    /\ InitExtIdle

SpecLaunch == InitLaunch /\ [][NextLaunch]_vars

\* C32: launch and launch_scoped run the closure exactly once on the spawned
\* thread whether or not pinning succeeded; the one pin attempt is made before
\* the closure starts; joining the handle yields the closure's outcome.
C32_ClosureRunsOnceAfterPin ==
    \A k \in Launched :
        /\ launch[k].runs <= 1
        /\ launch[k].pin_calls <= 1
        /\ launch[k].runs = 1 => launch[k].pin_calls = 1
        /\ launch[k].at \in {"none", "spawned", "pinned"} => launch[k].runs = 0
        /\ launch[k].at \in {"finished", "joined"} =>
              /\ launch[k].runs = 1
              /\ launch[k].result \in ClosureOutcomes
        /\ launch[k].at = "joined" => launch[k].joined = launch[k].result
        /\ launch[k].at # "joined" => launch[k].joined = NoOutcome

\* C32 witness: a thread whose pin attempt failed ran its closure and was
\* joined, and the join gave the closure's value.
C32_Witness ==
    \E k \in Launched :
        /\ launch[k].at = "joined"
        /\ launch[k].kind = "launch_scoped"
        /\ launch[k].pin_ret < 0
        /\ launch[k].warned
        /\ launch[k].runs = 1
        /\ launch[k].joined = [tag |-> "Ok", val |-> TRUE]

InitLoop ==
    /\ ealClones = 1
    /\ ealState = "up"
    /\ cleanupCalls = 0
    /\ garbages = <<>>
    /\ arena = [p \in Pools |-> "none"]
    /\ mpoolClones = [p \in Pools |-> 0]
    /\ refcnt = [m \in Mbufs |-> 0]
    /\ buffer = <<>>
    /\ everDeferred = {}
    /\ nicHeld = <<>>
    /\ lastOp = NoRecord
    /\ InitSetupIdle
    /\ InitPacketIdle
    /\ InitEalNewDone
    /\ InitStatIdle
    /\ InitDownIdle
    /\ InitExtIdle

SpecLoop ==
    /\ InitLoop
    /\ [][NextLoop]_vars
    /\ WF_vars(LoopThread)
    /\ WF_vars(TxLinkUp)
    /\ WF_vars(RxLinkUp)
    /\ WF_vars(Wire)

C37_SetupNeverRelocksShared ==
    \A t \in Threads : ~(pc[t] = "stuck" /\ lock = t)

\* C37 witness: a setup call that had started a port with an RX queue
\* panicked, and while unwinding it is stuck in MPoolInner::drop on the
\* mutex it holds itself.
C37_Witness ==
    \E t \in Threads :
        /\ pc[t] = "stuck"
        /\ lock = t
        /\ hist.panic.by = t
        /\ \E p \in Ports : hw.port[p].started /\ hw.port[p].rxq # {}

\* ---------------------------------------------------------------------------
\* SpecKeep: after a successful setup the caller holds its Eal, a pool and the
\* queues, and clones and drops them in any order.
SpecKeep == InitDown /\ [][NextKeep]_vars

\* C38: EalInner::drop never runs while a Port, RxQ, TxQ or MPool handle made
\* through the Eal exists: it runs at most once, only when the last of them
\* and the last Eal have been dropped, and then the port has been closed.
C38_TeardownAfterLastHandle ==
    down.torn # "no" =>
        /\ down.eal = 0
        /\ down.port = 0
        /\ down.pool = 0
        /\ \A q \in QueueIds : down.rxq[q] = 0 /\ down.txq[q] = 0
        /\ \A q \in QueueIds : down.mpool[q] # "live"
        /\ down.panic \/ down.close_calls = 1

\* C38 witness: every Eal value was dropped while queues were alive, and
\* EalInner::drop ran when the last RxQ was dropped.
C38_Witness ==
    /\ down.torn = "rxq"
    /\ down.eal = 0
    /\ down.close_calls = 1

\* C39 (as claimed): the pool of an RX queue is not released while a handle
\* of the RxQ is alive; its release is attempted only after the queue's
\* hardware stop was attempted, and for the last queue of the port only after
\* the port was stopped and closed.
C39_PoolReleasedAfterPortClosed ==
    \A q \in QueueIds :
        /\ down.rxq[q] > 0 => down.mpool[q] = "live"
        /\ down.mpool[q] # "live" =>
              /\ down.rx_stop[q] # "none"
              /\ down.pool_rel[q].others # "queues" => down.pool_rel[q].port = "closed"

\* C39 (amended): as above, but the port was stopped and closed before the
\* release exactly when the RxQ held the last reference to it: no other queue
\* and no Port handle of the caller was alive.
C39_PoolReleasedAfterPortReleased ==
    \A q \in QueueIds :
        /\ down.rxq[q] > 0 => down.mpool[q] = "live" /\ down.pool_rel[q] = NotReleased
        /\ down.mpool[q] # "live" =>
              /\ down.rxq[q] = 0
              /\ down.rx_stop[q] # "none"
              /\ down.pool_rel[q].others = "nothing" <=> down.pool_rel[q].port = "closed"

\* C39 witness: the RxQ dropped last held the last reference to the port, and
\* its pool was released after the port had been stopped and closed, although
\* the queue's own stop had failed.
C39_Witness ==
    \E q \in QueueIds :
        /\ down.rx_stop[q] = "failed"
        /\ down.mpool[q] = "deferred"
        /\ down.pool_rel[q] = [others |-> "nothing", port |-> "closed"]

\* ---------------------------------------------------------------------
\* SpecStat: threads call get_stat and reset_stat on clones of one Port,
\* with or without hardware statistics reset, while the device counts.
\* ---------------------------------------------------------------------
InitStat ==
    /\ ealClones = NumThreads
    /\ ealState = "alive"
    /\ cleanupCalls = 0
    /\ garbages = <<>>
    /\ arena = [p \in Pools |-> "none"]
    /\ mpoolClones = [p \in Pools |-> 0]
    /\ refcnt = [m \in Mbufs |-> 0]
    /\ buffer = <<>>
    /\ everDeferred = {}
    /\ nicHeld = <<>>
    /\ lastOp = NoRecord
    /\ InitSetupIdle
    /\ InitPacketIdle
    /\ InitEalNewDone
    /\ InitExtIdle
    /\ InitDownIdle
    /\ \E has_stats_reset \in BOOLEAN : portStat = NewPortStat(has_stats_reset)
    /\ statPc = [t \in Threads |-> IdleCaller]
    /\ statOp = NoStatOp

SpecStat == InitStat /\ [][NextStat]_vars

=============================================================================
